---- MODULE Spec2Model ----
(***************************************************************************)
(* libcw: a Core Wars MARS.  The module models                             *)
(*   - `Mars` of src/lib.rs (memory, process queue, load_program, step,    *)
(*     reset), the simulator the crate root defines;                       *)
(*   - `CoreBuilder::load` of src/simulation/builder.rs.                   *)
(* Unsigned arithmetic is kept exact: a machine word is represented by an  *)
(* integer r, where r >= 0 stands for the word r and r < 0 stands for the  *)
(* word 2^bits + r (a value that wrapped below zero), bits = 64 for the    *)
(* usize of src/lib.rs and 32 for the Address of simulation/mod.rs.  A     *)
(* build with overflow checks panics where a build without them wraps.     *)
(***************************************************************************)
EXTENDS Integers, Naturals, Sequences, FiniteSets, TLC

(***************************************************************************)
(* Bounds of the model                                                     *)
(***************************************************************************)
\* number of cells of the arena (MarsBuilder::new(size))
Size == 4
\* load_program is called at most MaxLoads times in a run
MaxLoads == 3
\* a step is not explored when a thread queue would grow beyond MaxThreads
MaxThreads == 3
\* a step is not explored when a field value would leave -ValCap..ValCap
ValCap == 6

(***************************************************************************)
(* Machine words                                                           *)
(***************************************************************************)
WordBits == 64

RECURSIVE Pow2Mod(_, _)
\* 2^k modulo m, for m > 0
Pow2Mod(k, m) == IF k = 0 THEN 1 % m ELSE (2 * Pow2Mod(k - 1, m)) % m

\* the word r of `bits` bits reduced modulo m (Rust `r % m`, m > 0 a small word)
WordRem(bits, r, m) == IF r >= 0 THEN r % m ELSE ((r % m) + Pow2Mod(bits, m)) % m

\* `r % m` on usize
URem(r, m) == WordRem(WordBits, r, m)

\* unsigned comparison of two words
ULt(x, y) == IF (x < 0) = (y < 0) THEN x < y ELSE y < 0

\* x + y leaves the word range
AddOverflows(x, y) ==
    \/ x < 0 /\ y < 0
    \/ x < 0 /\ y >= 0 /\ x + y >= 0
    \/ y < 0 /\ x >= 0 /\ x + y >= 0

\* x - y leaves the word range
SubOverflows(x, y) == ULt(x, y)

\* x * y leaves the word range
MulOverflows(x, y) ==
    \/ x < 0 /\ y < 0
    \/ x < 0 /\ y >= 2
    \/ y < 0 /\ x >= 2

\* Rust `x / y` on words of `bits` bits, y # 0, reduced modulo m
UDivRem(bits, x, y, m) ==
    IF x >= 0 /\ y >= 0 THEN (x \div y) % m
    ELSE IF x >= 0 THEN 0
    ELSE IF y < 0 THEN (IF x >= y THEN 1 ELSE 0) % m
    ELSE (WordRem(bits, x, y * m) \div y) % m

\* Rust `x % y` on words of `bits` bits, y # 0, reduced modulo m
UModRem(bits, x, y, m) ==
    IF x >= 0 /\ y >= 0 THEN (x % y) % m
    ELSE IF x >= 0 THEN x % m
    ELSE IF y < 0 THEN (IF x >= y THEN (x - y) % m ELSE WordRem(bits, x, m))
    ELSE WordRem(bits, x, y) % m

(***************************************************************************)
(* Instructions (src/lib.rs)                                               *)
(***************************************************************************)
Opcode == {"Dat", "Mov", "Add", "Sub", "Mul", "Div", "Mod", "Jmp", "Jmz",
           "Jmn", "Djn", "Spl", "Cmp", "Seq", "Sne", "Slt", "Ldp", "Stp",
           "Nop"}

Opmode == {"A", "B", "AB", "BA", "F", "X", "I"}

\* AddressingMode with its IncrementMode
AddressingMode == {"Immediate", "Direct",
                   "AIndirect", "AIndirectPreDecrement", "AIndirectPostIncrement",
                   "BIndirect", "BIndirectPreDecrement", "BIndirectPostIncrement"}

IsAIndirect(m) == m \in {"AIndirect", "AIndirectPreDecrement", "AIndirectPostIncrement"}
IsBIndirect(m) == m \in {"BIndirect", "BIndirectPreDecrement", "BIndirectPostIncrement"}

Field(v, m) == [value |-> v, mode |-> m]

OpField(c, m) == [code |-> c, mode |-> m]

Instruction(c, m, av, am, bv, bm) ==
    [op |-> OpField(c, m), a |-> Field(av, am), b |-> Field(bv, bm)]

\* Instruction::default(): derived Default of every part
DefaultInstruction == Instruction("Dat", "I", 0, "Immediate", 0, "Immediate")

\* Option<T>: None is <<>>, Some(x) is <<x>>
None == <<>>
Some(x) == <<x>>

(***************************************************************************)
(* Mars of src/lib.rs                                                      *)
(***************************************************************************)
VARIABLES
    memory,           \* Mars.memory: Vec<Instruction>, indexed 0..Size-1
    proceses,         \* Mars.proceses: VecDeque<(Pid, Vec<Instruction>, VecDeque<Address>)>
    fault,            \* "none", or the panic that ended the run
    overflow_checks,  \* the build panics on integer overflow (debug) or wraps (release)
    ret,              \* the last call made on the Mars and what it returned
    nloads,           \* number of load_program calls so far
    uids,             \* for each entry of proceses, the number of the load that made it
    hist,             \* the latest steps: who was queued before each, and who ran
    builder,          \* a CoreBuilder (src/src/simulation/builder.rs)
    built,            \* the builder's latest call, if a CoreBuilder::load: its argument and its result
    mars,             \* a Mars<T> (src/src/simulation/mars.rs)
    mret,             \* the last call made on `mars` and what it returned
    mloads,           \* number of load_batch calls so far
    game,             \* a Game (src/src/game/mod.rs) and the Mars it wraps
    gret,             \* the last call made on `game` and what it returned
    text              \* an instruction, the text Display made of it, and what the parser made of the text

vars == <<memory, proceses, fault, overflow_checks, ret, nloads, uids, hist,
          builder, built, mars, mret, mloads, game, gret, text>>

\* the state of the crate-root Mars and of what observes it
rootVars == <<memory, proceses, fault, ret, nloads, uids, hist>>

\* the state of the Mars<T> of simulation/mars.rs
simVars == <<mars, mret, mloads>>

\* the state of the CoreBuilder
builderVars == <<builder, built>>

\* the state of the Game
gameVars == <<game, gret>>

\* the state of the round trip through text
textVars == <<text>>

\* Mars.p_space_size (MarsBuilder::p_space_size)
PSpaceSize == 1

\* a valid index of memory
InBounds(i) == i >= 0 /\ i < Size

Ok(x) == [fault |-> "none", v |-> x]
Fail(kind) == [fault |-> kind, v |-> 0]

\* x + y on usize
CAdd(x, y, checks) ==
    IF checks /\ AddOverflows(x, y) THEN Fail("overflow") ELSE Ok(x + y)

\* x - y on usize
CSub(x, y, checks) ==
    IF checks /\ SubOverflows(x, y) THEN Fail("overflow") ELSE Ok(x - y)

\* x * y on usize
CMul(x, y, checks) ==
    IF checks /\ MulOverflows(x, y) THEN Fail("overflow") ELSE Ok(x * y)

\* the displacement an indirect operand reads from the cell it points at
PointerValue(cell, mode) ==
    IF IsAIndirect(mode) THEN cell.a.value ELSE cell.b.value

\* a_target_address / b_target_address of step
TargetAddress(mem, pc, fld, checks) ==
    CASE fld.mode = "Immediate" -> CAdd(pc, 0, checks)
      [] fld.mode = "Direct" -> CAdd(pc, fld.value, checks)
      [] OTHER ->
           LET i == CAdd(pc, fld.value, checks) IN
           IF i.fault # "none" THEN i
           ELSE IF ~InBounds(i.v) THEN Fail("index")
           ELSE LET s == CAdd(fld.value, PointerValue(mem[i.v], fld.mode), checks) IN
                IF s.fault # "none" THEN s ELSE CAdd(pc, s.v, checks)

\* the cell an indirect operand with a side effect points at, after `delta`
\* has been applied to the displacement the mode selects
Bump(mem, pc, fld, delta, checks) ==
    LET i == pc + fld.value
        old == PointerValue(mem[i], fld.mode)
        new == IF delta < 0 THEN CSub(old, 1, checks) ELSE CAdd(old, 1, checks)
    IN  IF new.fault # "none" THEN [fault |-> new.fault, memory |-> mem]
        ELSE [fault |-> "none",
              memory |-> IF IsAIndirect(fld.mode)
                         THEN [mem EXCEPT ![i].a.value = new.v]
                         ELSE [mem EXCEPT ![i].b.value = new.v]]

\* "Preincrement phase" of step for one operand
PreDecrement(mem, pc, fld, checks) ==
    IF fld.mode \in {"AIndirectPreDecrement", "BIndirectPreDecrement"}
    THEN Bump(mem, pc, fld, -1, checks)
    ELSE [fault |-> "none", memory |-> mem]

\* "post increment" of step for one operand
PostIncrement(mem, pc, fld, checks) ==
    IF fld.mode \in {"AIndirectPostIncrement", "BIndirectPostIncrement"}
    THEN Bump(mem, pc, fld, 1, checks)
    ELSE [fault |-> "none", memory |-> mem]

(***************************************************************************)
(* Execution phase of step: `a` is the copy a_ptr of the source cell, `b`  *)
(* the destination cell behind b_ptr.  The result is the destination cell  *)
(* after the instruction, maybe_offset, and the thread queue.  `bits` is   *)
(* the width of Address, the type of the field values.                     *)
(***************************************************************************)
Exec(b, off, threads) == [fault |-> "none", b |-> b, maybe_offset |-> off, threads |-> threads]
ExecPanic(kind, b, threads) == [fault |-> kind, b |-> b, maybe_offset |-> None, threads |-> threads]

\* the right-hand side `(x op y) % size` of Add, Sub and Mul
ArithValue(bits, code, x, y, checks) ==
    CASE code = "Add" -> LET r == CAdd(x, y, checks) IN
                         IF r.fault # "none" THEN r ELSE Ok(WordRem(bits, r.v, Size))
      [] code = "Sub" -> LET s == CAdd(x, Size, checks)
                             r == IF s.fault # "none" THEN s ELSE CSub(s.v, y, checks)
                         IN  IF r.fault # "none" THEN r ELSE Ok(WordRem(bits, r.v, Size))
      [] code = "Mul" -> LET r == CMul(x, y, checks) IN
                         IF r.fault # "none" THEN r ELSE Ok(WordRem(bits, r.v, Size))

\* one assignment `b_ptr.dst.value = (b_ptr.src.value op y) % size`
ArithAssign(bits, code, r, dst, src, y, checks) ==
    IF r.fault # "none" THEN r
    ELSE LET v == ArithValue(bits, code, r.b[src].value, y, checks) IN
         IF v.fault # "none" THEN [r EXCEPT !.fault = v.fault]
         ELSE [r EXCEPT !.b = [r.b EXCEPT ![dst].value = v.v]]

\* (Add, _), (Sub, _), (Mul, _)
ExecArith(bits, code, mode, a, b, threads, checks) ==
    LET r0 == Exec(b, Some(1), threads) IN
    CASE mode = "A"  -> ArithAssign(bits, code, r0, "a", "a", a.a.value, checks)
      [] mode = "B"  -> ArithAssign(bits, code, r0, "b", "b", a.a.value, checks)
      [] mode = "AB" -> ArithAssign(bits, code, r0, "b", "a", a.b.value, checks)
      [] mode = "BA" -> ArithAssign(bits, code, r0, "a", "b", a.a.value, checks)
      [] mode = "X"  -> ArithAssign(bits, code,
                            ArithAssign(bits, code, r0, "b", "a", a.b.value, checks),
                            "a", "b", a.a.value, checks)
      [] OTHER       -> ArithAssign(bits, code,
                            ArithAssign(bits, code, r0, "a", "a", a.a.value, checks),
                            "b", "b", a.b.value, checks)

\* `if d != 0 { b_ptr.dst.value = (b_ptr.dst.value / d) % size }`, also for %
DivAssign(bits, code, b, dst, d) ==
    IF d = 0 THEN b
    ELSE IF code = "Div"
         THEN [b EXCEPT ![dst].value = UDivRem(bits, b[dst].value, d, Size)]
         ELSE [b EXCEPT ![dst].value = UModRem(bits, b[dst].value, d, Size)]

\* (Div, _), (Mod, _)
ExecDiv(bits, code, mode, a, b, threads) ==
    CASE mode = "A"  -> Exec(DivAssign(bits, code, b, "a", a.a.value),
                             IF a.a.value # 0 THEN Some(1) ELSE None, threads)
      [] mode = "B"  -> Exec(DivAssign(bits, code, b, "b", a.b.value),
                             IF a.b.value # 0 THEN Some(1) ELSE None, threads)
      [] mode = "AB" -> Exec(DivAssign(bits, code, b, "b", a.a.value),
                             IF a.a.value # 0 THEN Some(1) ELSE None, threads)
      [] mode = "BA" -> Exec(DivAssign(bits, code, b, "a", a.b.value),
                             IF a.b.value # 0 THEN Some(1) ELSE None, threads)
      [] mode = "X"  -> Exec(DivAssign(bits, code, DivAssign(bits, code, b, "b", a.a.value), "a", a.b.value),
                             IF a.a.value = 0 \/ a.b.value = 0 THEN None ELSE Some(1), threads)
      [] OTHER       -> Exec(DivAssign(bits, code, DivAssign(bits, code, b, "a", a.a.value), "b", a.b.value),
                             IF a.a.value = 0 \/ a.b.value = 0 THEN None ELSE Some(1), threads)

\* the condition Jmz tests on the destination cell
JmzTest(mode, b) ==
    CASE mode \in {"A", "BA"} -> b.a.value = 0
      [] mode \in {"B", "AB"} -> b.b.value = 0
      [] OTHER                -> b.a.value = 0 /\ b.b.value = 0

\* the condition Jmn tests on the destination cell
JmnTest(mode, b) ==
    CASE mode \in {"A", "BA"} -> b.a.value # 0
      [] mode \in {"B", "AB"} -> b.b.value # 0
      [] OTHER                -> b.a.value # 0 /\ b.b.value # 0

\* (Djn, _): decrement the destination, then test it; the jump offset is the
\* A value of the shadowed copy of instr
ExecDjn(bits, mode, instr, b, threads, checks) ==
    LET dec(x) == ArithValue(bits, "Sub", x, 1, checks)
        da == dec(b.a.value)
        db == dec(b.b.value)
        ia == dec(instr.a.value)
        ib == dec(instr.b.value)
    IN  CASE mode \in {"A", "BA"} ->
               IF da.fault # "none" THEN ExecPanic(da.fault, b, threads)
               ELSE IF ia.fault # "none" THEN ExecPanic(ia.fault, b, threads)
               ELSE Exec([b EXCEPT !.a.value = da.v],
                         IF da.v # 0 THEN Some(ia.v) ELSE Some(1), threads)
          [] mode \in {"B", "AB"} ->
               IF db.fault # "none" THEN ExecPanic(db.fault, b, threads)
               ELSE IF ib.fault # "none" THEN ExecPanic(ib.fault, b, threads)
               ELSE Exec([b EXCEPT !.b.value = db.v],
                         IF b.a.value # 0 THEN Some(instr.a.value) ELSE Some(1), threads)
          [] OTHER ->
               IF db.fault # "none" THEN ExecPanic(db.fault, b, threads)
               ELSE IF da.fault # "none" THEN ExecPanic(da.fault, b, threads)
               ELSE IF ia.fault # "none" THEN ExecPanic(ia.fault, b, threads)
               ELSE IF ib.fault # "none" THEN ExecPanic(ib.fault, b, threads)
               ELSE Exec([b EXCEPT !.a.value = da.v, !.b.value = db.v],
                         IF da.v # 0 \/ db.v # 0 THEN Some(ia.v) ELSE Some(1), threads)

\* the comparison of (Seq, _) and (Cmp, _)
SeqTest(mode, a, b) ==
    CASE mode = "A"  -> a.a.value = b.a.value
      [] mode = "B"  -> a.b.value = b.b.value
      [] mode = "AB" -> a.a.value = b.b.value
      [] mode = "BA" -> a.b.value = b.a.value
      [] mode = "F"  -> a.a.value = b.a.value /\ a.b.value = b.b.value
      [] mode = "X"  -> a.a.value = b.b.value /\ a.b.value = b.a.value
      [] OTHER       -> a = b

\* the comparison of (Sne, _)
SneTest(mode, a, b) ==
    CASE mode = "A"  -> a.a.value = b.a.value
      [] mode = "B"  -> a.b.value = b.b.value
      [] mode = "AB" -> a.a.value = b.b.value
      [] mode = "BA" -> a.b.value = b.a.value
      [] mode = "F"  -> a.a.value = b.a.value /\ a.b.value = b.b.value
      [] mode = "X"  -> a.a.value = b.b.value /\ a.b.value = b.a.value
      [] OTHER       -> a = b

\* the comparison of (Slt, _)
SltTest(mode, a, b) ==
    CASE mode = "A"  -> ULt(a.a.value, b.a.value)
      [] mode = "B"  -> ULt(a.b.value, b.b.value)
      [] mode = "AB" -> ULt(a.a.value, b.b.value)
      [] mode = "BA" -> ULt(a.b.value, b.a.value)
      [] mode = "X"  -> ULt(a.a.value, b.b.value) /\ ULt(a.b.value, b.a.value)
      [] OTHER       -> ULt(a.a.value, b.a.value) /\ ULt(a.b.value, b.b.value)

\* a Mov whose modifiers AB and BA are exchanged
ExecMovSwapped(mode, a, b) ==
    CASE mode = "A"  -> [b EXCEPT !.a = a.a]
      [] mode = "B"  -> [b EXCEPT !.b = a.b]
      [] mode = "AB" -> [b EXCEPT !.a = a.b]
      [] mode = "BA" -> [b EXCEPT !.b = a.a]
      [] mode = "F"  -> [b EXCEPT !.a = a.a, !.b = a.b]
      [] mode = "X"  -> [b EXCEPT !.b = a.a, !.a = a.b]
      [] OTHER       -> a

\* (Mov, _)
ExecMov(mode, a, b) ==
    CASE mode = "A"  -> [b EXCEPT !.a = a.a]
      [] mode = "B"  -> [b EXCEPT !.b = a.b]
      [] mode = "AB" -> [b EXCEPT !.b = a.a]
      [] mode = "BA" -> [b EXCEPT !.a = a.b]
      [] mode = "F"  -> [b EXCEPT !.a = a.a, !.b = a.b]
      [] mode = "X"  -> [b EXCEPT !.b = a.a, !.a = a.b]
      [] OTHER       -> a

\* (Spl, _): the new thread is queued before the continuation
ExecSpl(pc, instr, b, threads, checks) ==
    LET t == CAdd(pc, instr.a.value, checks) IN
    IF t.fault # "none" THEN ExecPanic(t.fault, b, threads)
    ELSE Exec(b, Some(1), Append(threads, t.v))

\* match (instr.op.code, instr.op.mode) of step
Execute(bits, pc, instr, a, b, threads, checks) ==
    LET code == instr.op.code
        mode == instr.op.mode
    IN  CASE code = "Dat" -> Exec(b, None, threads)
          [] code = "Mov" -> Exec(ExecMov(mode, a, b), Some(1), threads)
          [] code \in {"Add", "Sub", "Mul"} -> ExecArith(bits, code, mode, a, b, threads, checks)
          [] code \in {"Div", "Mod"} -> ExecDiv(bits, code, mode, a, b, threads)
          [] code = "Jmp" -> Exec(b, Some(instr.a.value), threads)
          [] code = "Jmz" -> Exec(b, IF JmzTest(mode, b) THEN Some(instr.a.value) ELSE Some(1), threads)
          [] code = "Jmn" -> Exec(b, IF JmnTest(mode, b) THEN Some(instr.a.value) ELSE Some(1), threads)
          [] code = "Djn" -> ExecDjn(bits, mode, instr, b, threads, checks)
          [] code = "Spl" -> ExecSpl(pc, instr, b, threads, checks)
          [] code \in {"Seq", "Cmp"} -> Exec(b, IF SeqTest(mode, a, b) THEN Some(2) ELSE Some(1), threads)
          [] code = "Slt" -> Exec(b, IF SltTest(mode, a, b) THEN Some(2) ELSE Some(1), threads)
          [] code = "Sne" -> Exec(b, IF SneTest(mode, a, b) THEN Some(2) ELSE Some(1), threads)
          [] code \in {"Ldp", "Stp"} -> ExecPanic("unimplemented", b, threads)
          [] code = "Nop" -> Exec(b, Some(1), threads)

\* a process entry (Pid, Vec<Instruction>, VecDeque<Address>)
Process(pid, pspace, threads) == [pid |-> pid, pspace |-> pspace, threads |-> threads]

\* `pc + offset % size`, the program counter step queues for the thread
NextPc(pc, maybe_offset, checks) ==
    IF maybe_offset = None THEN Ok(0)
    ELSE CAdd(pc, URem(maybe_offset[1], Size), checks)

\* RequeueThread that lets the thread that ran run again next
RequeueThreadFront(threads, maybe_offset, npc) ==
    IF maybe_offset = None THEN threads ELSE <<npc>> \o threads

\* "requeue the program counter if the thread wasn't killed"
RequeueThread(threads, maybe_offset, npc) ==
    IF maybe_offset = None THEN threads ELSE Append(threads, npc)

\* RequeueProcess that keeps a process whose last thread is gone
RequeueProcessAlways(rest, proc, threads) ==
    Append(rest, Process(proc.pid, proc.pspace, threads))

\* RequeueProcess that lets the next process overtake
RequeueProcessSecond(rest, proc, threads) ==
    IF threads = <<>> THEN rest
    ELSE IF rest = <<>> THEN <<Process(proc.pid, proc.pspace, threads)>>
    ELSE <<Head(rest), Process(proc.pid, proc.pspace, threads)>> \o Tail(rest)

\* RequeueProcess putting the process back where it was
RequeueProcessFront(rest, proc, threads) ==
    IF threads # <<>> THEN <<Process(proc.pid, proc.pspace, threads)>> \o rest ELSE rest

\* RequeueProcess that hands the threads to the process queued last
RequeueProcessMerged(rest, proc, threads) ==
    IF threads = <<>> THEN rest
    ELSE IF rest = <<>> THEN <<Process(proc.pid, proc.pspace, threads)>>
    ELSE [rest EXCEPT ![Len(rest)].threads = @ \o threads]

\* "requeue the process if there are still threads"
RequeueProcess(rest, proc, threads) ==
    IF threads # <<>>
    THEN Append(rest, Process(proc.pid, proc.pspace, threads))
    ELSE rest

(***************************************************************************)
(* Mars::step.  The result is the panic that ended the call (or "none"),   *)
(* and the memory and the process queue the call leaves.  A call that      *)
(* panics ends the run; the model keeps the state the call started from.   *)
(***************************************************************************)
StepOutcome(mem, procs, checks) ==
    LET Panicked(kind) == [fault |-> kind, memory |-> mem, proceses |-> procs, threads |-> <<>>]
        \* "requeue the process if there are still threads"
        Requeued(proc, m, threads) ==
            [fault |-> "none",
             memory |-> m,
             proceses |-> RequeueProcess(Tail(procs), proc, threads),
             threads |-> threads]
        \* "requeue the program counter if the thread wasn't killed"
        Queued(proc, m, ex, npc) ==
            IF npc.fault # "none" THEN Panicked(npc.fault)
            ELSE Requeued(proc, m, RequeueThread(ex.threads, ex.maybe_offset, npc.v))
        \* "post increment", B operand
        PostB(proc, pc, ex, qb) ==
            IF qb.fault # "none" THEN Panicked(qb.fault)
            ELSE Queued(proc, qb.memory, ex, NextPc(pc, ex.maybe_offset, checks))
        \* "post increment", A operand
        PostA(proc, pc, instr, ex, qa) ==
            IF qa.fault # "none" THEN Panicked(qa.fault)
            ELSE PostB(proc, pc, ex, PostIncrement(qa.memory, pc, instr.b, checks))
        \* the write through b_ptr
        Executed(proc, pc, instr, m, tb, ex) ==
            IF ex.fault # "none" THEN Panicked(ex.fault)
            ELSE PostA(proc, pc, instr, ex,
                       PostIncrement([m EXCEPT ![tb] = ex.b], pc, instr.a, checks))
        \* a_ptr and b_ptr, "Execution phase"
        Pointers(proc, pc, instr, m, ta, tb) ==
            IF ~InBounds(ta) \/ ~InBounds(tb) THEN Panicked("index")
            ELSE Executed(proc, pc, instr, m, tb,
                          Execute(WordBits, pc, instr, m[ta], m[tb], Tail(proc.threads), checks))
        \* "Preincrement phase", B operand
        PreB(proc, pc, instr, ta, tb, pb) ==
            IF pb.fault # "none" THEN Panicked(pb.fault)
            ELSE Pointers(proc, pc, instr, pb.memory, ta, tb)
        \* "Preincrement phase", A operand
        PreA(proc, pc, instr, ta, tb, pa) ==
            IF ta.fault # "none" THEN Panicked(ta.fault)
            ELSE IF tb.fault # "none" THEN Panicked(tb.fault)
            ELSE IF pa.fault # "none" THEN Panicked(pa.fault)
            ELSE PreB(proc, pc, instr, ta.v, tb.v, PreDecrement(pa.memory, pc, instr.b, checks))
        \* a_target_address and b_target_address
        Fetched(proc, pc, instr) ==
            PreA(proc, pc, instr,
                 TargetAddress(mem, pc, instr.a, checks),
                 TargetAddress(mem, pc, instr.b, checks),
                 PreDecrement(mem, pc, instr.a, checks))
        \* `let instr = self.memory[pc]`
        Dequeued(proc, pc) ==
            IF ~InBounds(pc) THEN Panicked("index") ELSE Fetched(proc, pc, mem[pc])
    IN  IF procs = <<>> THEN Panicked("assert")
        ELSE IF Head(procs).threads = <<>> THEN Panicked("expect")
        ELSE Dequeued(Head(procs), Head(Head(procs).threads))

\* the `program` of load_program with every value reduced modulo the size
Normalize(program) ==
    [i \in 1..Len(program) |->
        [program[i] EXCEPT !.a.value = URem(program[i].a.value, Size),
                           !.b.value = URem(program[i].b.value, Size)]]

\* Place that stops at the last cell of memory
PlaceClipped(mem, program, address) ==
    [j \in 0..(Size - 1) |->
        IF j - address \in 0..(Len(program) - 1) THEN program[j - address + 1] ELSE mem[j]]

\* memory after the loop of load_program that copies the program
Place(mem, program, address) ==
    [j \in 0..(Size - 1) |->
        IF \E i \in 1..Len(program) : (address + (i - 1)) % Size = j
        THEN program[CHOOSE i \in 1..Len(program) :
                        /\ (address + (i - 1)) % Size = j
                        /\ \A k \in (i + 1)..Len(program) : (address + (k - 1)) % Size # j]
        ELSE mem[j]]

\* `let pid = self.proceses.len()`
NewPid(procs) == Len(procs)

\* Mars::load_program: the pid it returns, the memory and the queue it leaves
LoadOutcome(mem, procs, program, address) ==
    LET addr == URem(address, Size)
        pid == NewPid(procs)
    IN  [pid |-> pid,
         memory |-> Place(mem, Normalize(program), addr),
         proceses |-> Append(procs, Process(pid, [i \in 1..PSpaceSize |-> DefaultInstruction], <<addr>>))]

(***************************************************************************)
(* The programs and addresses the model loads                              *)
(***************************************************************************)
Imp == Instruction("Mov", "I", 0, "Direct", 1, "Direct")

Programs ==
    { <<DefaultInstruction>>,
      <<Imp>>,
      <<Instruction("Spl", "B", 0, "Direct", 0, "Direct")>>,
      <<Instruction("Nop", "F", 0, "BIndirectPostIncrement", Size - 1, "Immediate"),
        Instruction("Nop", "F", 0, "AIndirectPreDecrement", 0, "Immediate")>>,
      <<Instruction("Jmp", "B", Size + 1, "Direct", 0, "Direct"),
        Instruction("Seq", "I", 0, "Direct", 0, "Direct")>>,
      <<Instruction("Jmz", "B", 2, "Immediate", 0, "Direct")>> }

Addresses == {0, 2 * Size - 1}

\* every field value of the memory is within the values the model explores
ValuesWithinCap(mem) ==
    \A j \in 0..(Size - 1) :
        /\ mem[j].a.value \in (-ValCap)..ValCap
        /\ mem[j].b.value \in (-ValCap)..ValCap

\* every thread queue is within the length the model explores
ThreadsWithinCap(procs) ==
    \A i \in 1..Len(procs) : Len(procs[i].threads) <= MaxThreads

(***************************************************************************)
(* CoreBuilder (src/src/simulation/builder.rs)                             *)
(***************************************************************************)
MaxLength == 2
MaxBatch == 2

DEFAULT_MAX_CYCLES == 80000
DEFAULT_MAX_PROCESSES == 8000
DEFAULT_MAX_LENGTH == 100
DEFAULT_MIN_DISTANCE == 100
DEFAULT_VERSION == 80
ProgramDistance == 100000

\* redcode::Instruction of the builder: an OpField and two Fields
OffsetField(o, m) == [offset |-> o, mode |-> m]

BuilderInstruction(c, m, ao, am, bo, bm) ==
    [op |-> OpField(c, m), a |-> OffsetField(ao, am), b |-> OffsetField(bo, bm)]

\* Instruction::default()
BuilderDefaultInstruction == BuilderInstruction("Dat", "F", 0, "Direct", 0, "Direct")

\* CoreBuilder::new().core_size(Size).pspace_size(PSpaceSize)
CoreBuilderNew ==
    [core_size |-> Size,
     pspace_size |-> PSpaceSize,
     max_cycles |-> DEFAULT_MAX_CYCLES,
     max_processes |-> DEFAULT_MAX_PROCESSES,
     max_length |-> DEFAULT_MAX_LENGTH,
     min_distance |-> DEFAULT_MIN_DISTANCE,
     version |-> DEFAULT_VERSION]

\* the stable insertion of one pair into a vector sorted by address
RECURSIVE InsertByAddress(_, _)
InsertByAddress(sorted, pair) ==
    IF sorted = <<>> THEN <<pair>>
    ELSE IF pair[1] < Head(sorted)[1] THEN <<pair>> \o sorted
    ELSE <<Head(sorted)>> \o InsertByAddress(Tail(sorted), pair)

\* `sorted_programs.sort_by(|a, b| a.0.cmp(&b.0))`, a stable sort
RECURSIVE SortByAddress(_)
SortByAddress(programs) ==
    IF programs = <<>> THEN <<>>
    ELSE InsertByAddress(SortByAddress(SubSeq(programs, 1, Len(programs) - 1)),
                         programs[Len(programs)])

\* the verification loop of CoreBuilder::load: the first error, or "none"
RECURSIVE Verify(_, _)
Verify(b, sorted) ==
    IF sorted = <<>> THEN "none"
    ELSE LET start == Head(sorted)[1]
             end == start + Len(Head(sorted)[2])
             program_length == end - start
         IN  IF program_length >= b.max_length THEN "ProgramTooLong"
             ELSE IF ProgramDistance <= b.min_distance THEN "InvalidOffset"
             ELSE Verify(b, Tail(sorted))

\* memory after the loading loop has copied the first n programs
RECURSIVE CopyPrograms(_, _, _)
CopyPrograms(b, sorted, n) ==
    IF n = 0 THEN [j \in 0..(b.core_size - 1) |-> BuilderDefaultInstruction]
    ELSE LET mem == CopyPrograms(b, sorted, n - 1)
             start == sorted[n][1]
             program == sorted[n][2]
         IN  [j \in 0..(b.core_size - 1) |->
                 IF \E i \in 0..(Len(program) - 1) : (i + start) % b.core_size = j
                 THEN program[1 + CHOOSE i \in 0..(Len(program) - 1) :
                                 /\ (i + start) % b.core_size = j
                                 /\ \A k \in (i + 1)..(Len(program) - 1) :
                                        (k + start) % b.core_size # j]
                 ELSE mem[j]]

\* CoreBuilder::load
CoreBuilderLoad(b, programs) ==
    LET sorted_programs == SortByAddress(programs)
        err == Verify(b, sorted_programs)
    IN  IF err # "none" THEN [ok |-> FALSE, err |-> err]
        ELSE [ok |-> TRUE,
              core |-> [memory |-> CopyPrograms(b, sorted_programs, Len(sorted_programs)),
                        last_pid |-> None,
                        version |-> b.version,
                        max_processes |-> b.max_processes,
                        max_cycles |-> b.max_cycles,
                        process_queue |-> [pid \in 1..Len(sorted_programs) |->
                                              <<pid - 1, <<sorted_programs[pid][1]>> >>],
                        pspace |-> [pid \in 0..(Len(sorted_programs) - 1) |->
                                       [i \in 1..b.pspace_size |-> BuilderDefaultInstruction]]]]

\* the instruction `ins` of the doc test of CoreBuilder::load
BuilderIns == BuilderInstruction("Mov", "I", 0, "Direct", 0, "Direct")

\* vectors of up to MaxLength + 1 copies of one instruction
BuilderPrograms ==
    { [i \in 1..n |-> ins] : n \in 0..(MaxLength + 1), ins \in {BuilderIns} }

\* the vectors of at most MaxBatch pairs of an address and a program: the
\* first program at either end of memory, the others at cell 1
BuilderBatches ==
    UNION { { [i \in 1..n |-> <<IF i = 1 THEN first ELSE 1, progs[i]>>] :
                first \in {0, Size - 1}, progs \in [1..n -> BuilderPrograms] } :
            n \in 0..MaxBatch }

(***************************************************************************)
(* Mars<T> of src/src/simulation/mars.rs.  An Address is a u32 and a field *)
(* Value an i16.  The actions keep every field value of memory within      *)
(* -ValCap..ValCap and every address below 2 * Size, so `-offset` and      *)
(* `wrapping_add` never leave their types; `wrapping_sub` does wrap below  *)
(* zero, and + - * on Values are checked against the i16 range.            *)
(***************************************************************************)
ValueBits == 16
AddressBits == 32

RECURSIVE Pow2(_)
Pow2(k) == IF k = 0 THEN 1 ELSE 2 * Pow2(k - 1)

InValue(x) == x >= 0 - Pow2(ValueBits - 1) /\ x < Pow2(ValueBits - 1)

\* the i16 a result wraps to
WrapValue(x) == ((x + Pow2(ValueBits - 1)) % Pow2(ValueBits)) - Pow2(ValueBits - 1)

\* an i16 result: a build with overflow checks panics outside the range
Checked(x, checks) ==
    IF InValue(x) THEN Ok(x)
    ELSE IF checks THEN Fail("overflow") ELSE Ok(WrapValue(x))

Abs(x) == IF x < 0 THEN 0 - x ELSE x

\* Rust `x / y` on i16: truncates towards zero; panics on 0 and on MIN / -1
TDiv(x, y) ==
    IF y = 0 THEN Fail("divide by zero")
    ELSE IF x = 0 - Pow2(ValueBits - 1) /\ y = 0 - 1 THEN Fail("overflow")
    ELSE Ok(IF (x < 0) = (y < 0) THEN Abs(x) \div Abs(y) ELSE 0 - (Abs(x) \div Abs(y)))

\* Rust `x % y` on i16: the sign of x; panics on 0 and on MIN % -1
TRem(x, y) ==
    IF y = 0 THEN Fail("divide by zero")
    ELSE IF x = 0 - Pow2(ValueBits - 1) /\ y = 0 - 1 THEN Fail("overflow")
    ELSE Ok(IF x < 0 THEN 0 - (Abs(x) % Abs(y)) ELSE Abs(x) % Abs(y))

\* <T as Default>::default() of redcode::Instruction
MarsDefaultInstruction == Instruction("Dat", "I", 0, "Direct", 0, "Direct")

PreDecrementModes == {"AIndirectPreDecrement", "BIndirectPreDecrement"}
PostIncrementModes == {"AIndirectPostIncrement", "BIndirectPostIncrement"}

\* Mars::size
size(m) == Len(m.memory)

\* Mars::fetch; memory is a sequence, cell j is memory[j + 1]
fetch(m, addr) == m.memory[(addr % size(m)) + 1]

\* Mars::store
store(m, addr, instr) == [m EXCEPT !.memory[(addr % size(m)) + 1] = instr]

\* Mars::calc_addr_offset
calc_addr_offset(m, base, offset) ==
    IF offset < 0
    THEN IF base >= 0 - offset
         THEN (base + offset) % size(m)
         ELSE (((base + offset) % size(m)) + Pow2Mod(AddressBits, size(m))) % size(m)
    ELSE (base + offset) % size(m)

\* Mars::effective_addr: a panic, or the address
effective_addr(m, use_a_field, checks) ==
    LET mode == IF use_a_field THEN m.ir.a.mode ELSE m.ir.b.mode
        offset == IF use_a_field THEN m.ir.a.value ELSE m.ir.b.value
        direct == fetch(m, calc_addr_offset(m, m.pc, offset))
    IN  CASE mode = "Immediate" -> Ok(m.pc)
          [] mode = "Direct" -> Ok(calc_addr_offset(m, m.pc, offset))
          [] IsAIndirect(mode) ->
                LET sum == Checked(direct.a.value + offset, checks) IN
                IF sum.fault # "none" THEN sum ELSE Ok(calc_addr_offset(m, m.pc, sum.v))
          [] IsBIndirect(mode) ->
                LET sum == Checked(direct.b.value + offset, checks) IN
                IF sum.fault # "none" THEN sum ELSE Ok(calc_addr_offset(m, m.pc, sum.v))

effective_addr_a(m, checks) == effective_addr(m, TRUE, checks)

effective_addr_b(m, checks) == effective_addr(m, FALSE, checks)

\* a Mars that a panic has ended
Panic(m, kind) == [m EXCEPT !.fault = kind]

\* Mars::current_queue_mut().unwrap().push_back(pc)
queue_pc(m) ==
    IF m.process_queue = <<>> THEN Panic(m, "unwrap")
    ELSE [m EXCEPT !.process_queue[1][2] = Append(@, m.pc)]

\* step_pc without the reduction modulo the size
step_pc_unreduced(m) == [m EXCEPT !.pc = m.pc + 1]

\* Mars::step_pc
step_pc(m) == [m EXCEPT !.pc = (m.pc + 1) % size(m)]

\* Mars::skip_pc
skip_pc(m) == [m EXCEPT !.pc = (m.pc + 2) % size(m)]

\* Mars::jump_pc
jump_pc(m, offset) == [m EXCEPT !.pc = calc_addr_offset(m, m.pc, offset)]

\* Mars::step_and_queue_pc, with the event it returns
step_and_queue_pc(m) == [queue_pc(step_pc(m)) EXCEPT !.event = "Stepped"]

\* Mars::skip_and_queue_pc
skip_and_queue_pc(m) == [queue_pc(skip_pc(m)) EXCEPT !.event = "Skipped"]

\* Mars::jump_and_queue_pc
jump_and_queue_pc(m, offset) == [queue_pc(jump_pc(m, offset)) EXCEPT !.event = "Jumped"]

\* Mars::process_count
RECURSIVE SumLens(_)
SumLens(queue) == IF queue = <<>> THEN 0 ELSE Len(Head(queue)[2]) + SumLens(Tail(queue))

process_count(m) == SumLens(m.process_queue)

\* fetch_effective_a and fetch_effective_b, and where the B operand lives
Operands(m, checks) ==
    LET Fetched(ea, eb) ==
            IF ea.fault # "none" THEN [fault |-> ea.fault]
            ELSE IF eb.fault # "none" THEN [fault |-> eb.fault]
            ELSE [fault |-> "none", a |-> fetch(m, ea.v), b |-> fetch(m, eb.v), b_addr |-> eb.v]
    IN  Fetched(effective_addr_a(m, checks), effective_addr_b(m, checks))

\* Mars::exec_dat
exec_dat(m) ==
    IF m.process_queue = <<>> THEN Panic(m, "unwrap")
    ELSE [m EXCEPT !.process_queue[1][2] = IF @ = <<>> THEN @ ELSE Tail(@),
                   !.event = "Terminated"]

\* Mars::exec_mov
exec_mov(m, checks) ==
    LET modifier == m.ir.op.mode
        Moved(a, b) ==
            CASE modifier = "A" -> [b EXCEPT !.a.value = a.a.value]
              [] modifier = "B" -> [b EXCEPT !.b.value = a.b.value]
              [] modifier = "AB" -> [b EXCEPT !.a.value = a.b.value]
              [] modifier = "BA" -> [b EXCEPT !.b.value = a.a.value]
              [] modifier = "F" -> [b EXCEPT !.a.value = a.a.value, !.b.value = a.b.value]
              [] modifier = "X" -> [b EXCEPT !.a.value = a.b.value, !.b.value = a.a.value]
              [] modifier = "I" -> a
        Fetched(o) ==
            IF o.fault # "none" THEN Panic(m, o.fault)
            ELSE step_and_queue_pc(store(m, o.b_addr, Moved(o.a, o.b)))
    IN  Fetched(Operands(m, checks))

\* `(x op y) % self.size() as Value`
MathValue(code, x, y, n, checks) ==
    LET r == CASE code = "Add" -> Checked(x + y, checks)
               [] code = "Sub" -> Checked(x - y, checks)
               [] code = "Mul" -> Checked(x * y, checks)
               [] code = "Div" -> TDiv(x, y)
               [] code = "Mod" -> TRem(x, y)
    IN  IF r.fault # "none" THEN r ELSE TRem(r.v, n)

\* exec_add, exec_sub, exec_mul, exec_div, exec_mod: one body, five operators
exec_math(code, m, checks) ==
    LET modifier == m.ir.op.mode
        n == size(m)
        sets_a == modifier \in {"A", "BA", "F", "I", "X"}
        sets_b == modifier \in {"B", "AB", "F", "I", "X"}
        \* the value set_a gets
        ValueA(a, b) ==
            IF modifier \in {"A", "F", "I"} THEN MathValue(code, b.a.value, a.a.value, n, checks)
            ELSE MathValue(code, b.a.value, a.b.value, n, checks)
        \* the value set_b gets
        ValueB(a, b) ==
            IF modifier \in {"B", "F", "I"} THEN MathValue(code, b.b.value, a.b.value, n, checks)
            ELSE MathValue(code, b.b.value, a.a.value, n, checks)
        Stored(o, sa, sb) ==
            step_and_queue_pc(store(m, o.b_addr,
                [o.b EXCEPT !.a.value = IF sets_a THEN sa.v ELSE @,
                            !.b.value = IF sets_b THEN sb.v ELSE @]))
        \* the two assignments in the order of the arm: X sets b first
        InOrder(o, sa, sb, first, second) ==
            IF first.fault # "none" THEN Panic(m, first.fault)
            ELSE IF sets_a /\ sets_b /\ second.fault # "none" THEN Panic(m, second.fault)
            ELSE Stored(o, sa, sb)
        Computed(o, sa, sb) ==
            InOrder(o, sa, sb,
                    IF modifier = "X" THEN sb ELSE IF sets_a THEN sa ELSE sb,
                    IF modifier = "X" THEN sa ELSE sb)
        Fetched(o) ==
            IF o.fault # "none" THEN Panic(m, o.fault)
            ELSE Computed(o, ValueA(o.a, o.b), ValueB(o.a, o.b))
    IN  Fetched(Operands(m, checks))

\* Mars::exec_jmp
exec_jmp(m) ==
    IF m.ir.a.mode \in {"Immediate", "Direct"}
    THEN jump_and_queue_pc(m, m.ir.a.value)
    ELSE Panic(m, "unimplemented")

\* the `jump` of exec_jmz
jmz_jump(modifier, b) ==
    CASE modifier \in {"A", "BA"} -> b.a.value = 0
      [] modifier \in {"B", "AB"} -> b.b.value = 0
      [] modifier \in {"F", "I", "X"} -> b.a.value = 0 /\ b.b.value = 0

\* the `jump` of exec_jmn
jmn_jump(modifier, b) ==
    CASE modifier \in {"A", "BA"} -> b.a.value # 0
      [] modifier \in {"B", "AB"} -> b.b.value # 0
      [] modifier \in {"F", "I", "X"} -> b.a.value # 0 /\ b.b.value # 0

\* Mars::exec_jmz
exec_jmz(m, checks) ==
    LET Fetched(eb) ==
            IF eb.fault # "none" THEN Panic(m, eb.fault)
            ELSE IF jmz_jump(m.ir.op.mode, fetch(m, eb.v))
                 THEN jump_and_queue_pc(m, m.ir.a.value)
                 ELSE step_and_queue_pc(m)
    IN  Fetched(effective_addr_b(m, checks))

\* Mars::exec_jmn
exec_jmn(m, checks) ==
    LET Fetched(eb) ==
            IF eb.fault # "none" THEN Panic(m, eb.fault)
            ELSE IF jmn_jump(m.ir.op.mode, fetch(m, eb.v))
                 THEN jump_and_queue_pc(m, m.ir.a.value)
                 ELSE step_and_queue_pc(m)
    IN  Fetched(effective_addr_b(m, checks))

\* Mars::exec_djn
exec_djn(m, checks) ==
    LET modifier == m.ir.op.mode
        sets_a == modifier \in {"A", "BA", "F", "I", "X"}
        sets_b == modifier \in {"B", "AB", "F", "I", "X"}
        Decremented(b_addr, b, da, db) ==
            IF sets_a /\ da.fault # "none" THEN Panic(m, da.fault)
            ELSE IF sets_b /\ db.fault # "none" THEN Panic(m, db.fault)
            ELSE exec_jmn(store(m, b_addr,
                             [b EXCEPT !.a.value = IF sets_a THEN da.v ELSE @,
                                       !.b.value = IF sets_b THEN db.v ELSE @]),
                          checks)
        Loaded(b_addr, b) ==
            Decremented(b_addr, b,
                        Checked(b.a.value - 1, checks),
                        Checked(b.b.value - 1, checks))
        Fetched(eb) ==
            IF eb.fault # "none" THEN Panic(m, eb.fault)
            ELSE Loaded(eb.v, fetch(m, eb.v))
    IN  Fetched(effective_addr_b(m, checks))

\* Mars::exec_spl
exec_spl(m, checks) ==
    LET Split(target) ==
            IF target.fault # "none" THEN Panic(m, target.fault)
            ELSE IF m.process_queue = <<>> THEN Panic(m, "unwrap")
            ELSE [step_and_queue_pc([m EXCEPT !.process_queue[1][2] = Append(@, target.v)])
                     EXCEPT !.event = "Split"]
    IN  IF process_count(m) < m.max_processes
        THEN Split(effective_addr_a(m, checks))
        ELSE step_and_queue_pc(m)

Eq(x, y) == x = y
Ne(x, y) == x # y
Lt(x, y) == x < y

\* the comparison of exec_seq (==), exec_sne (!=) and exec_slt (<)
Rel(code, x, y) ==
    CASE code = "Seq" -> Eq(x, y)
      [] code = "Sne" -> Ne(x, y)
      [] code = "Slt" -> Lt(x, y)

\* the `skip` of exec_seq, exec_sne and exec_slt
Skip(code, modifier, a, b) ==
    CASE modifier = "A" -> Rel(code, a.a.value, b.b.value)
      [] modifier = "B" -> Rel(code, a.b.value, b.b.value)
      [] modifier = "BA" -> Rel(code, a.a.value, b.b.value)
      [] modifier = "AB" -> Rel(code, a.b.value, b.a.value)
      [] modifier = "X" -> Rel(code, a.b.value, b.a.value) /\ Rel(code, a.a.value, b.b.value)
      [] modifier \in {"F", "I"} -> Rel(code, a.a.value, b.a.value) /\ Rel(code, a.b.value, b.b.value)

\* exec_seq, exec_sne, exec_slt
exec_skip(code, m, checks) ==
    LET Compared(skip) ==
            IF skip THEN skip_and_queue_pc(m) ELSE step_and_queue_pc(m)
        Fetched(o) ==
            IF o.fault # "none" THEN Panic(m, o.fault)
            ELSE Compared(Skip(code, m.ir.op.mode, o.a, o.b))
    IN  Fetched(Operands(m, checks))

\* Mars::exec_nop
exec_nop(m) == step_and_queue_pc(m)

\* Mars::execute
execute(m, checks) ==
    LET code == m.ir.op.code IN
    CASE code = "Dat" -> exec_dat(m)
      [] code = "Mov" -> exec_mov(m, checks)
      [] code \in {"Add", "Sub", "Mul", "Div", "Mod"} -> exec_math(code, m, checks)
      [] code = "Jmp" -> exec_jmp(m)
      [] code = "Jmz" -> exec_jmz(m, checks)
      [] code = "Jmn" -> exec_jmn(m, checks)
      [] code = "Djn" -> exec_djn(m, checks)
      [] code = "Spl" -> exec_spl(m, checks)
      [] code \in {"Seq", "Sne", "Slt"} -> exec_skip(code, m, checks)
      [] code \in {"Ldp", "Stp"} -> Panic(m, "unimplemented")
      [] code = "Nop" -> exec_nop(m)

\* Result<T, E>
OkResult(x) == <<"Ok", x>>
ErrResult(e) == <<"Err", e>>

\* the body the "predecrement" and the "postincrement" phase of step share:
\* both match the PreDecrement modes and both add one
IncrementPhase(m, pc, checks) ==
    LET a_addr == calc_addr_offset(m, pc, m.ir.a.value)
        b_addr == calc_addr_offset(m, pc, m.ir.b.value)
        a == fetch(m, a_addr)
        b == fetch(m, b_addr)
        a_mode == m.ir.a.mode
        b_mode == m.ir.b.mode
        na == CASE a_mode = "AIndirectPreDecrement" -> Checked(a.a.value + 1, checks)
                [] a_mode = "BIndirectPreDecrement" -> Checked(a.b.value + 1, checks)
                [] OTHER -> Ok(0)
        nb == CASE b_mode = "AIndirectPreDecrement" -> Checked(b.a.value + 1, checks)
                [] b_mode = "BIndirectPreDecrement" -> Checked(b.b.value + 1, checks)
                [] OTHER -> Ok(0)
        a2 == CASE a_mode = "AIndirectPreDecrement" -> [a EXCEPT !.a.value = na.v]
                [] a_mode = "BIndirectPreDecrement" -> [a EXCEPT !.b.value = na.v]
                [] OTHER -> a
        b2 == CASE b_mode = "AIndirectPreDecrement" -> [b EXCEPT !.a.value = nb.v]
                [] b_mode = "BIndirectPreDecrement" -> [b EXCEPT !.b.value = nb.v]
                [] OTHER -> b
    IN  IF na.fault # "none" THEN Panic(m, na.fault)
        ELSE IF nb.fault # "none" THEN Panic(m, nb.fault)
        ELSE store(store(m, a_addr, a2), b_addr, b2)

\* the end of step without the halt of a Mars whose last thread is gone
RescheduleRunning(m) ==
    IF m.process_queue = <<>> THEN Panic(m, "unwrap")
    ELSE LET pid == Head(m.process_queue)[1]
             q == Head(m.process_queue)[2]
             rest == Tail(m.process_queue)
             queue == IF q # <<>> THEN Append(rest, <<pid, q>>) ELSE rest
         IN  IF queue = <<>>
             THEN [m EXCEPT !.process_queue = queue]
             ELSE IF queue[1][2] = <<>> THEN Panic(m, "unwrap")
             ELSE [m EXCEPT !.process_queue = [queue EXCEPT ![1][2] = Tail(@)],
                            !.pid = queue[1][1],
                            !.pc = Head(queue[1][2]),
                            !.cycle = m.cycle + 1]

\* the end of step: the process that ran leaves the front, the next one is fetched
Reschedule(m) ==
    IF m.process_queue = <<>> THEN Panic(m, "unwrap")
    ELSE LET pid == Head(m.process_queue)[1]
             q == Head(m.process_queue)[2]
             rest == Tail(m.process_queue)
             queue == IF q # <<>> THEN Append(rest, <<pid, q>>) ELSE rest
         IN  IF queue = <<>>
             THEN [m EXCEPT !.process_queue = queue, !.halted = TRUE, !.event = "Halted"]
             ELSE IF queue[1][2] = <<>> THEN Panic(m, "unwrap")
             ELSE [m EXCEPT !.process_queue = [queue EXCEPT ![1][2] = Tail(@)],
                            !.pid = queue[1][1],
                            !.pc = Head(queue[1][2]),
                            !.cycle = m.cycle + 1]

\* a step of a halted Mars that counts a cycle
step_halted_counting(m) ==
    [mars |-> [m EXCEPT !.cycle = m.cycle + 1], result |-> ErrResult("Halted")]

\* the first branch of Mars::step: "can't step after the core is halted"
step_halted(m) == [mars |-> m, result |-> ErrResult("Halted")]

\* Mars::step: the Mars it leaves and the result it returns
step(m, checks) ==
    LET pc == m.pc
        Returns(done) ==
            IF done.fault # "none"
            THEN [mars |-> Panic(m, done.fault), result |-> <<"panic", done.fault>>]
            ELSE [mars |-> done, result |-> OkResult(done.event)]
        \* the process queue is rotated
        PostIncremented(post) ==
            Returns(IF post.fault # "none" THEN post ELSE Reschedule(post))
        \* "postincrement" phase
        Executed(postincrement, executed) ==
            PostIncremented(IF executed.fault # "none" \/ ~postincrement THEN executed
                            ELSE IncrementPhase(executed, pc, checks))
        \* self.execute()
        PreDecremented(postincrement, pre) ==
            Executed(postincrement, IF pre.fault # "none" THEN pre ELSE execute(pre, checks))
        \* "predecrement" phase
        Flagged(fetched, predecrement, postincrement) ==
            PreDecremented(postincrement,
                           IF predecrement THEN IncrementPhase(fetched, pc, checks) ELSE fetched)
        \* the two flags
        Fetched(fetched) ==
            Flagged(fetched,
                    fetched.ir.a.mode \in PreDecrementModes \/ fetched.ir.b.mode \in PreDecrementModes,
                    fetched.ir.a.mode \in PostIncrementModes \/ fetched.ir.b.mode \in PostIncrementModes)
    IN  IF m.halted THEN step_halted(m)
        ELSE IF m.cycle >= m.max_cycles
        THEN [mars |-> [m EXCEPT !.halted = TRUE], result |-> OkResult("MaxCyclesReached")]
        ELSE Fetched([m EXCEPT !.ir = fetch(m, pc)])

\* one program of load_batch: copied, given a p-space, queued
LoadOne(m, dest, maybe_pin, prog) ==
    LET pin == IF maybe_pin = None THEN process_count(m) ELSE maybe_pin[1]
        n == size(m)
    IN  [m EXCEPT
            !.memory = [j \in 1..n |->
                           IF \E i \in 0..(Len(prog) - 1) : (dest + i) % n = j - 1
                           THEN prog[1 + CHOOSE i \in 0..(Len(prog) - 1) :
                                        /\ (dest + i) % n = j - 1
                                        /\ \A k \in (i + 1)..(Len(prog) - 1) : (dest + k) % n # j - 1]
                           ELSE m.memory[j]],
            !.pspace = [p \in (DOMAIN m.pspace) \cup {pin} |->
                           IF p = pin THEN [i \in 1..m.pspace_size |-> 0] ELSE m.pspace[p]],
            !.process_queue = <<<<pin, <<dest>>>>>> \o @]

RECURSIVE LoadAll(_, _)
LoadAll(m, programs) ==
    IF programs = <<>> THEN m
    ELSE LoadAll(LoadOne(m, Head(programs)[1], Head(programs)[2], Head(programs)[3]),
                 Tail(programs))

\* load_batch without the test for an empty vector
load_batch_unchecked(m, programs) ==
    [mars |-> [LoadAll(m, programs) EXCEPT !.halted = FALSE], result |-> OkResult(<<>>)]

\* Mars::load_batch
load_batch(m, programs) ==
    IF programs = <<>> THEN [mars |-> m, result |-> ErrResult("EmptyLoad")]
    ELSE LET loaded == LoadAll(m, programs)
             front == Head(loaded.process_queue)
         IN  [mars |-> [loaded EXCEPT !.halted = FALSE,
                                      !.pc = Head(front[2]),
                                      !.pid = front[1],
                                      !.process_queue[1][2] = Tail(@)],
              result |-> OkResult(<<>>)]

\* Mars::reset
reset(m) ==
    [m EXCEPT !.memory = [j \in 1..size(m) |-> MarsDefaultInstruction],
              !.process_queue = <<>>,
              !.cycle = 0,
              !.ir = MarsDefaultInstruction,
              !.halted = TRUE]

\* Mars::reset_hard
reset_hard(m) == reset([m EXCEPT !.pspace = <<>>])

\* Mars::pcs
RECURSIVE Flatten(_)
Flatten(queue) == IF queue = <<>> THEN <<>> ELSE Head(queue)[2] \o Flatten(Tail(queue))

pcs(m) == <<m.pc>> \o Flatten(m.process_queue)

\* Mars::pids
pids(m) == <<m.pid>> \o [i \in 1..Len(m.process_queue) |-> m.process_queue[i][1]]

\* bounds of the runs of Mars<T>
MaxCycles == 4
MaxProcesses == 2
MaxBatchLoads == 2
\* Mars.min_distance (MarsBuilder::min_distance)
MinDistance == 3

\* MarsBuilder::new().build() with the sizes and limits of the model.  The
\* fields `fault` (the panic that ended the run) and `event` (what the exec_
\* function returned) are not fields of the struct.
MarsBuilt ==
    [memory |-> [j \in 1..Size |-> MarsDefaultInstruction],
     ir |-> MarsDefaultInstruction,
     pid |-> 0,
     pc |-> 0,
     cycle |-> 0,
     process_queue |-> <<>>,
     pspace |-> <<>>,
     halted |-> TRUE,
     max_length |-> MaxLength,
     min_distance |-> MinDistance,
     version |-> DEFAULT_VERSION,
     pspace_size |-> PSpaceSize,
     max_processes |-> MaxProcesses,
     max_cycles |-> MaxCycles,
     fault |-> "none",
     event |-> "Stepped"]

MarsPrograms ==
    { <<MarsDefaultInstruction>>,
      <<Imp>>,
      <<Instruction("Spl", "B", 0, "Direct", 0, "Direct")>>,
      <<Instruction("Jmp", "B", 0 - 1, "Direct", 0, "Direct")>>,
      <<Instruction("Nop", "F", 0, "AIndirectPreDecrement", 0, "BIndirectPostIncrement"),
        MarsDefaultInstruction>> }

\* the vectors of at most MaxBatch triples (dest, maybe_pin, prog): the first
\* program at cell 0 without a pin or beyond the end of memory with one, the
\* others at cell 2 without a pin
MarsBatches ==
    UNION { { [i \in 1..n |-> IF i = 1 THEN <<first[1], first[2], progs[i]>>
                                       ELSE <<2, None, progs[i]>>] :
                first \in {<<0, None>>, <<Size + 1, Some(1)>>},
                progs \in [1..n -> MarsPrograms] } :
            n \in 0..MaxBatch }

MarsWithinCap(m) ==
    /\ \A j \in 1..Len(m.memory) :
          /\ m.memory[j].a.value \in (0 - ValCap)..ValCap
          /\ m.memory[j].b.value \in (0 - ValCap)..ValCap
    /\ \A i \in 1..Len(m.process_queue) : Len(m.process_queue[i][2]) <= MaxThreads

(***************************************************************************)
(* Game (src/src/game/mod.rs), a Mars of src/src/simulation/mod.rs with    *)
(* the pins of its players.  pin_to_pid is a function on the pins in use,  *)
(* processes a sequence of (pid, pspace, threads).                         *)
(***************************************************************************)
\* the players the model adds before it stops adding (a call that ends in a
\* PinConflict adds none)
MaxPlayers == 2

\* the pins the callers choose from
GamePins == 0..2

\* the calls of Game::step the model makes before it stops stepping
MaxGameCycles == 3

\* the programs the players load
GamePrograms ==
    { <<MarsDefaultInstruction>>,
      <<Imp>>,
      <<Instruction("Spl", "B", 0, "Direct", 0, "Direct")>>,
      <<Instruction("Nop", "F", 0, "AIndirectPreDecrement", 0, "BIndirectPostIncrement"),
        MarsDefaultInstruction>>,
      <<Instruction("Stp", "AB", 0, "Immediate", 0, "Immediate")>> }

\* Game::default(), its Mars with the memory size of the model
GameDefault ==
    [pin_to_pid |-> <<>>,
     memory |-> [j \in 0..(Size - 1) |-> MarsDefaultInstruction],
     cycle |-> 0,
     processes |-> <<>>,
     fault |-> "none"]

\* Mars::set_memory of simulation/mod.rs
set_memory(mem, instructions, address) ==
    LET \* `(address as usize + i) % size`
        Cell(i) == (WordRem(AddressBits, address, Size) + i) % Size IN
    [j \in 0..(Size - 1) |->
        IF \E i \in 0..(Len(instructions) - 1) : Cell(i) = j
        THEN instructions[1 + CHOOSE i \in 0..(Len(instructions) - 1) :
                                 /\ Cell(i) = j
                                 /\ \A k \in (i + 1)..(Len(instructions) - 1) : Cell(k) # j]
        ELSE mem[j]]

\* Mars::load_program of simulation/mod.rs (load_program_with_pspace): the
\* Game after the load, and the pid under `pid`
load_program(g, program, address) ==
    [g EXCEPT !.memory = set_memory(g.memory, program, address),
              !.processes = Append(g.processes, <<Len(g.processes), <<>>, <<address>>>>)]

\* add_player_with_pin that does not look the pin up
add_player_with_pin_unchecked(g, program, address, pin) ==
    [game |-> [load_program(g, program, address) EXCEPT
                  !.pin_to_pid = [p \in (DOMAIN g.pin_to_pid) \cup {pin} |->
                                     IF p = pin THEN Len(g.processes) ELSE g.pin_to_pid[p]]],
     result |-> OkResult(pin)]

\* Game::add_player_with_pin: the Game it leaves and the result it returns
add_player_with_pin(g, program, address, pin) ==
    IF pin \in DOMAIN g.pin_to_pid
    THEN [game |-> g, result |-> ErrResult(<<"PinConflict", pin>>)]
    ELSE [game |-> [load_program(g, program, address) EXCEPT
                       !.pin_to_pid = [p \in (DOMAIN g.pin_to_pid) \cup {pin} |->
                                          IF p = pin THEN Len(g.processes) ELSE g.pin_to_pid[p]]],
          result |-> OkResult(pin)]

\* Game::gen_next_pin: the least pin that is not a key
gen_next_pin(g) ==
    CHOOSE pin \in 0..Cardinality(DOMAIN g.pin_to_pid) :
        /\ pin \notin DOMAIN g.pin_to_pid
        /\ \A q \in 0..(pin - 1) : q \in DOMAIN g.pin_to_pid

\* Game::add_player
add_player(g, program, address) ==
    add_player_with_pin(g, program, address, gen_next_pin(g))

\* Game::add_player_with_pin_rand, `load_addr` the address `rng.gen()` drew
add_player_with_pin_rand(g, program, pin, load_addr) ==
    add_player_with_pin(g, program, load_addr, pin)

\* Game::add_player_rand, `load_addr` the address `rng.gen()` drew
add_player_rand(g, program, load_addr) ==
    add_player(g, program, load_addr)

RECURSIVE load_programs_zipped(_, _, _, _)
\* the loop of Mars::load_programs_with_shared_pspace over the first k pairs
\* of `programs.iter().zip(addresses.iter())`
load_programs_zipped(g, programs, addresses, k) ==
    IF k = 0 THEN g
    ELSE load_program(load_programs_zipped(g, programs, addresses, k - 1),
                      programs[k], addresses[k])

\* Mars::load_programs_with_shared_pspace of simulation/mod.rs: the Mars it
\* leaves and the pids it returns; every process gets the same empty pspace
load_programs_with_shared_pspace(g, programs, addresses) ==
    LET n == IF Len(programs) < Len(addresses) THEN Len(programs) ELSE Len(addresses) IN
    [game |-> load_programs_zipped(g, programs, addresses, n),
     pids |-> [k \in 1..n |-> Len(g.processes) + k - 1]]

\* `x % size` on Address (u32): a value that wrapped below zero stands for
\* 2^AddressBits + x
SimRem(x, m) == WordRem(AddressBits, x, m)

\* Mars::resolve_address of simulation/mod.rs
resolve_address(mem, pc, offset, addr_mode, checks) ==
    CASE addr_mode = "Immediate" -> CAdd(pc, 0, checks)
      [] addr_mode = "Direct" -> CAdd(pc, offset, checks)
      [] OTHER ->
           LET i == CAdd(pc, offset, checks) IN
           IF i.fault # "none" THEN i
           ELSE LET s == CAdd(offset, PointerValue(mem[SimRem(i.v, Size)], addr_mode), checks) IN
                IF s.fault # "none" THEN s ELSE CAdd(pc, s.v, checks)

\* `self.memory[i].a.value -= 1` and the like of Mars::step of
\* simulation/mod.rs, the index i already computed
SimBump(mem, i, mode, delta, checks) ==
    LET Bumped(new) ==
            IF new.fault # "none" THEN [fault |-> new.fault, memory |-> mem]
            ELSE [fault |-> "none",
                  memory |-> IF IsAIndirect(mode)
                             THEN [mem EXCEPT ![i].a.value = new.v]
                             ELSE [mem EXCEPT ![i].b.value = new.v]]
    IN  IF ~InBounds(i) THEN [fault |-> "index", memory |-> mem]
        ELSE Bumped(IF delta < 0 THEN CSub(PointerValue(mem[i], mode), 1, checks)
                                 ELSE CAdd(PointerValue(mem[i], mode), 1, checks))

\* "Preincrement phase" of Mars::step of simulation/mod.rs for one operand:
\* the cell is `(pc + value) % size`
SimPreDecrement(mem, pc, fld, checks) ==
    IF fld.mode \in PreDecrementModes
    THEN SimBump(mem, SimRem(pc + fld.value, Size), fld.mode, 0 - 1, checks)
    ELSE [fault |-> "none", memory |-> mem]

\* "post increment" of Mars::step of simulation/mod.rs for one operand: the
\* cell is `pc + value`, not reduced
SimPostIncrement(mem, pc, fld, checks) ==
    IF fld.mode \in PostIncrementModes
    THEN SimBump(mem, pc + fld.value, fld.mode, 1, checks)
    ELSE [fault |-> "none", memory |-> mem]

\* `(pc + offset) % size`, the program counter Mars::step of
\* simulation/mod.rs queues for the thread
SimNextPc(pc, maybe_offset, checks) ==
    IF maybe_offset = None THEN Ok(0)
    ELSE LET s == CAdd(pc, maybe_offset[1], checks) IN
         IF s.fault # "none" THEN s ELSE Ok(SimRem(s.v, Size))

(***************************************************************************)
(* Mars::step of simulation/mod.rs on the Mars of a Game.  The execution   *)
(* phase is the match of the crate root's step, line for line.  The result *)
(* is the panic that ended the call (or "none"), the Mars the call leaves  *)
(* and the Option<Pid> it returns.  A call that panics ends the run; the   *)
(* model keeps the state the call started from.                            *)
(***************************************************************************)
sim_step(g, checks) ==
    LET Panicked(kind) == [fault |-> kind, game |-> g, val |-> None]
        \* "requeue the process if there are still threads"
        Requeued(pid, m, threads) ==
            [fault |-> "none",
             game |-> [g EXCEPT !.memory = m,
                                !.cycle = g.cycle + 1,
                                !.processes = IF threads # <<>>
                                              THEN Append(Tail(g.processes),
                                                          <<pid, Head(g.processes)[2], threads>>)
                                              ELSE Tail(g.processes)],
             val |-> IF threads # <<>> THEN None ELSE Some(pid)]
        \* "requeue the program counter if the thread wasn't killed"
        Queued(pid, m, ex, npc) ==
            IF npc.fault # "none" THEN Panicked(npc.fault)
            ELSE Requeued(pid, m, RequeueThread(ex.threads, ex.maybe_offset, npc.v))
        \* "post increment", B operand
        PostB(pid, pc, ex, qb) ==
            IF qb.fault # "none" THEN Panicked(qb.fault)
            ELSE Queued(pid, qb.memory, ex, SimNextPc(pc, ex.maybe_offset, checks))
        \* "post increment", A operand
        PostA(pid, pc, instr, ex, qa) ==
            IF qa.fault # "none" THEN Panicked(qa.fault)
            ELSE PostB(pid, pc, ex, SimPostIncrement(qa.memory, pc, instr.b, checks))
        \* the write through b_ptr
        Executed(pid, pc, instr, m, tb, ex) ==
            IF ex.fault # "none" THEN Panicked(ex.fault)
            ELSE PostA(pid, pc, instr, ex,
                       SimPostIncrement([m EXCEPT ![tb] = ex.b], pc, instr.a, checks))
        \* a_ptr and b_ptr, "Execution phase"
        Pointers(pid, pc, instr, threads, m, ta, tb) ==
            Executed(pid, pc, instr, m, tb,
                     Execute(AddressBits, pc, instr, m[ta], m[tb], threads, checks))
        \* "Preincrement phase", B operand
        PreB(pid, pc, instr, threads, ta, tb, pb) ==
            IF pb.fault # "none" THEN Panicked(pb.fault)
            ELSE Pointers(pid, pc, instr, threads, pb.memory,
                          SimRem(ta, Size), SimRem(tb, Size))
        \* "Preincrement phase", A operand
        PreA(pid, pc, instr, threads, ta, tb, pa) ==
            IF ta.fault # "none" THEN Panicked(ta.fault)
            ELSE IF tb.fault # "none" THEN Panicked(tb.fault)
            ELSE IF pa.fault # "none" THEN Panicked(pa.fault)
            ELSE PreB(pid, pc, instr, threads, ta.v, tb.v,
                      SimPreDecrement(pa.memory, pc, instr.b, checks))
        \* a_target_address and b_target_address
        Fetched(pid, pc, instr, threads) ==
            PreA(pid, pc, instr, threads,
                 resolve_address(g.memory, pc, instr.a.value, instr.a.mode, checks),
                 resolve_address(g.memory, pc, instr.b.value, instr.b.mode, checks),
                 SimPreDecrement(g.memory, pc, instr.a, checks))
        \* `let instr = self.memory[(pc % size) as usize]`
        Dequeued(pid, pc, threads) ==
            Fetched(pid, pc, g.memory[SimRem(pc, Size)], threads)
        \* `self.processes.pop_front()`
        Popped(proc) ==
            IF proc[3] = <<>> THEN Panicked("expect")
            ELSE Dequeued(proc[1], Head(proc[3]), Tail(proc[3]))
    IN  IF g.processes = <<>> THEN Panicked("assert")
        ELSE Popped(Head(g.processes))

\* Game::step: the panic that ended the call (or "none"), the Game the call
\* leaves and the Option<Pin> it returns.  The pid Mars::step returns is the
\* key of the lookup in pin_to_pid.
game_step(g, checks) ==
    LET Looked(r) ==
            IF r.fault # "none" THEN [fault |-> r.fault, game |-> [g EXCEPT !.fault = r.fault], val |-> None]
            ELSE IF r.val = None THEN r
            ELSE IF r.val[1] \notin DOMAIN r.game.pin_to_pid
                 THEN [fault |-> "expect pin", game |-> [r.game EXCEPT !.fault = "expect pin"], val |-> None]
            ELSE [r EXCEPT !.val = Some(r.game.pin_to_pid[r.val[1]])]
    IN  Looked(sim_step(g, checks))

\* Mars::process_count of simulation/mod.rs
sim_process_count(g) == Len(g.processes)

\* Mars::pid of simulation/mod.rs
sim_pid(g) == IF g.processes = <<>> THEN None ELSE Some(Head(g.processes)[1])

\* Mars::reset of simulation/mod.rs
sim_reset(g) ==
    [g EXCEPT !.memory = [j \in 0..(Size - 1) |-> MarsDefaultInstruction],
              !.processes = <<>>]

\* Game::winner
winner(g) == IF sim_process_count(g) = 1 THEN sim_pid(g) ELSE None

(***************************************************************************)
(* Text: Display of src/src/redcode.rs and the parser of                   *)
(* src/src/parse/mod.rs.  A text is a sequence of characters.  A parser    *)
(* returns Ok with the rest of the input and a value, Error, or Incomplete *)
(* (the input ended where more could follow).                              *)
(***************************************************************************)
\* the largest field value the model formats
MaxValue == 12

LowerCase == <<"a", "b", "c", "d", "e", "f", "g", "h", "i", "j", "k", "l", "m", "n", "o", "p", "q", "r", "s", "t", "u", "v", "w", "x", "y", "z">>
UpperCase == <<"A", "B", "C", "D", "E", "F", "G", "H", "I", "J", "K", "L", "M", "N", "O", "P", "Q", "R", "S", "T", "U", "V", "W", "X", "Y", "Z">>
Digit == <<"0", "1", "2", "3", "4", "5", "6", "7", "8", "9">>

\* the names of OpCode as Display writes them, in the order parse_opcode
\* tries them
OpCodeNames ==
    << <<"Dat", <<"D", "A", "T">>>>,
       <<"Mov", <<"M", "O", "V">>>>,
       <<"Add", <<"A", "D", "D">>>>,
       <<"Sub", <<"S", "U", "B">>>>,
       <<"Mul", <<"M", "U", "L">>>>,
       <<"Div", <<"D", "I", "V">>>>,
       <<"Mod", <<"M", "O", "D">>>>,
       <<"Jmp", <<"J", "M", "P">>>>,
       <<"Jmz", <<"J", "M", "Z">>>>,
       <<"Jmn", <<"J", "M", "N">>>>,
       <<"Djn", <<"D", "J", "N">>>>,
       <<"Spl", <<"S", "P", "L">>>>,
       <<"Cmp", <<"C", "M", "P">>>>,
       <<"Seq", <<"S", "E", "Q">>>>,
       <<"Sne", <<"S", "N", "E">>>>,
       <<"Slt", <<"S", "L", "T">>>>,
       <<"Ldp", <<"L", "D", "P">>>>,
       <<"Stp", <<"S", "T", "P">>>>,
       <<"Nop", <<"N", "O", "P">>>> >>

\* the names of OpMode, in the order parse_opmode tries them
OpModeNames ==
    << <<"AB", <<"A", "B">>>>,
       <<"BA", <<"B", "A">>>>,
       <<"A", <<"A">>>>,
       <<"B", <<"B">>>>,
       <<"F", <<"F">>>>,
       <<"I", <<"I">>>>,
       <<"X", <<"X">>>> >>

\* the sigils of parse_addressing_mode, in the order it tries them
ParsedSigils ==
    << <<"#", "Immediate">>, <<"$", "Direct">>, <<"*", "AIndirect">>, <<"@", "BIndirect">>,
       <<"{", "AIndirectPreDecrement">>, <<"<", "AIndirectPostIncrement">>,
       <<"}", "BIndirectPreDecrement">>, <<">", "BIndirectPostIncrement">> >>

\* the name a table gives a value
NameOf(table, v) == table[CHOOSE i \in 1..Len(table) : table[i][1] = v][2]

\* impl Display for OpCode
OpCodeDisplay(code) == NameOf(OpCodeNames, code)

\* impl Display for OpMode
OpModeDisplay(mode) == NameOf(OpModeNames, mode)

\* impl Display for AddressingMode
AddressingModeDisplay(mode) ==
    CASE mode = "Immediate" -> <<"#">>
      [] mode = "Direct" -> <<"$">>
      [] mode = "AIndirect" -> <<"*">>
      [] mode = "AIndirectPostIncrement" -> <<"}">>
      [] mode = "AIndirectPreDecrement" -> <<"{">>
      [] mode = "BIndirect" -> <<"@">>
      [] mode = "BIndirectPostIncrement" -> <<">">>
      [] mode = "BIndirectPreDecrement" -> <<"<">>

\* Display of an Address: its decimal digits
RECURSIVE AddressDisplay(_)
AddressDisplay(n) ==
    IF n < 10 THEN <<Digit[n + 1]>>
    ELSE Append(AddressDisplay(n \div 10), Digit[(n % 10) + 1])

\* impl Display for Field
FieldDisplay(fld) == AddressingModeDisplay(fld.mode) \o AddressDisplay(fld.value)

\* impl Display for OpField
OpFieldDisplay(op) == OpCodeDisplay(op.code) \o <<".">> \o OpModeDisplay(op.mode)

\* impl Display for Instruction: "{} {} {}"
InstructionDisplay(instr) ==
    OpFieldDisplay(instr.op) \o <<" ">> \o FieldDisplay(instr.a) \o <<" ">> \o FieldDisplay(instr.b)

ParseOk(rest, val) == [kind |-> "Ok", rest |-> rest, val |-> val]
ParseError == [kind |-> "Error", rest |-> <<>>, val |-> None]
ParseIncomplete == [kind |-> "Incomplete", rest |-> <<>>, val |-> None]

\* the upper-case letter of a letter, as tag_no_case! compares
ToUpper(c) ==
    IF \E i \in 1..Len(LowerCase) : LowerCase[i] = c
    THEN UpperCase[CHOOSE i \in 1..Len(LowerCase) : LowerCase[i] = c]
    ELSE c

\* tag_no_case!(tag), the value being val
tag_no_case(tag, val, input) ==
    IF \E i \in 1..Len(tag) : i <= Len(input) /\ ToUpper(input[i]) # ToUpper(tag[i])
    THEN ParseError
    ELSE IF Len(input) < Len(tag) THEN ParseIncomplete
    ELSE ParseOk(SubSeq(input, Len(tag) + 1, Len(input)), val)

\* alt_complete! over the names of a table, from the i-th on: the first
\* that matches
RECURSIVE alt_complete(_, _, _)
alt_complete(table, i, input) ==
    IF i > Len(table) THEN ParseError
    ELSE IF tag_no_case(table[i][2], table[i][1], input).kind = "Ok"
    THEN tag_no_case(table[i][2], table[i][1], input)
    ELSE alt_complete(table, i + 1, input)

\* parse_opcode
parse_opcode(input) == alt_complete(OpCodeNames, 1, input)

\* parse_opmode
parse_opmode(input) == alt_complete(OpModeNames, 1, input)

\* parse_addressing_mode
parse_addressing_mode(input) ==
    IF input = <<>> THEN ParseError
    ELSE IF \E i \in 1..Len(ParsedSigils) : ParsedSigils[i][1] = Head(input)
    THEN ParseOk(Tail(input), NameOf(ParsedSigils, Head(input)))
    ELSE ParseError

\* opt!(p): None where p fails
opt(r, input) == IF r.kind = "Error" THEN ParseOk(input, None)
                 ELSE IF r.kind = "Ok" THEN ParseOk(r.rest, Some(r.val))
                 ELSE r

\* space0: the spaces and tabs at the front are skipped
RECURSIVE space0(_)
space0(input) ==
    IF input = <<>> THEN ParseIncomplete
    ELSE IF Head(input) \in {" ", "\t"} THEN space0(Tail(input))
    ELSE ParseOk(input, None)

\* FromStr::from_str: the value of a sequence of decimal digits (the texts
\* of the model stay below the u32 range)
RECURSIVE FromStr(_, _)
FromStr(digits, acc) ==
    IF digits = <<>> THEN acc
    ELSE FromStr(Tail(digits), 10 * acc + ((CHOOSE d \in 1..10 : Digit[d] = Head(digits)) - 1))

\* the digits at the front of the input
RECURSIVE Digits(_)
Digits(input) ==
    IF input = <<>> \/ ~(\E d \in 1..10 : Digit[d] = Head(input)) THEN <<>>
    ELSE <<Head(input)>> \o Digits(Tail(input))

\* parse_field_value: digit, then FromStr
parse_field_value(input) ==
    LET Taken(digits) ==
            IF Len(digits) = Len(input) THEN ParseIncomplete
            ELSE IF digits = <<>> THEN ParseError
            ELSE ParseOk(SubSeq(input, Len(digits) + 1, Len(input)), FromStr(digits, 0))
    IN  Taken(Digits(input))

\* parse_field
parse_field(input) ==
    LET Valued(mode, value) ==
            IF value.kind # "Ok" THEN value
            ELSE ParseOk(value.rest, Field(value.val, mode))
        Spaced(mode, spaces) ==
            IF spaces.kind # "Ok" THEN spaces
            ELSE Valued(mode, parse_field_value(spaces.rest))
        Moded(mode) ==
            Spaced(IF mode.val = None THEN "Direct" ELSE mode.val[1], space0(mode.rest))
    IN  Moded(opt(parse_addressing_mode(input), input))

\* maybe_parse_opfield_opmode
maybe_parse_opfield_opmode(input) ==
    opt(IF input = <<>> THEN ParseIncomplete
        ELSE IF Head(input) # "." THEN ParseError
        ELSE parse_opmode(Tail(input)),
        input)

\* parse_opfield
parse_opfield(input) ==
    LET Moded(code, mode) ==
            IF mode.kind # "Ok" THEN mode
            ELSE ParseOk(mode.rest, OpField(code, IF mode.val = None THEN "I" ELSE mode.val[1]))
        Coded(code) ==
            IF code.kind # "Ok" THEN code
            ELSE Moded(code.val, maybe_parse_opfield_opmode(code.rest))
    IN  Coded(parse_opcode(input))

\* maybe_parse_b_field
maybe_parse_b_field(input) ==
    LET Spaced(spaces) ==
            IF spaces.kind # "Ok" THEN spaces ELSE parse_field(spaces.rest)
    IN  opt(IF input = <<>> THEN ParseIncomplete
            ELSE IF Head(input) # "," THEN ParseError
            ELSE Spaced(space0(Tail(input))),
            input)

\* parse_instruction
parse_instruction(input) ==
    LET Done(op, a, b) ==
            IF b.kind # "Ok" THEN b
            ELSE ParseOk(b.rest, [op |-> op, a |-> a,
                                  b |-> IF b.val = None THEN Field(0, "Direct") ELSE b.val[1]])
        Spaced2(op, a, spaces) ==
            IF spaces.kind # "Ok" THEN spaces
            ELSE Done(op, a, maybe_parse_b_field(spaces.rest))
        Fielded(op, a) ==
            IF a.kind # "Ok" THEN a
            ELSE Spaced2(op, a.val, space0(a.rest))
        Spaced1(op, spaces) ==
            IF spaces.kind # "Ok" THEN spaces
            ELSE Fielded(op, parse_field(spaces.rest))
        Opped(op) ==
            IF op.kind # "Ok" THEN op
            ELSE Spaced1(op.val, space0(op.rest))
    IN  Opped(parse_opfield(input))

\* the instructions the model formats
TextInstructions ==
    { Instruction(c, m, av, am, bv, bm) :
        c \in Opcode, m \in {"I", "AB"}, av \in {0, MaxValue}, am \in AddressingMode,
        bv \in {1}, bm \in AddressingMode }

\* an instruction, before it is formatted
TextNew(instr) == [stage |-> "new", instr |-> instr, text |-> <<>>, parsed |-> ParseError]

\* The loads are numbered -1, -2, ... (pids are never negative).  Tagged is
\* the queue with each process carrying the number of its load in place of
\* its pid, and Tags reads the numbers back after the code has moved the
\* processes, `fresh` being the number of a process the call has made.
Tagged(procs, ids) ==
    [i \in 1..Len(procs) |-> Process(ids[i], procs[i].pspace, procs[i].threads)]

Tags(tagged, fresh) ==
    [i \in 1..Len(tagged) |-> IF tagged[i].pid >= 0 THEN fresh ELSE tagged[i].pid]

\* a call of the interface: its name, its arguments, what it returned
Returned(op, args, val) == [op |-> op, args |-> args, val |-> val]

\* the state after construction, the Game being g
InitWith(g, t) ==
    /\ memory = [j \in 0..(Size - 1) |-> DefaultInstruction]
    /\ proceses = <<>>
    /\ fault = "none"
    /\ overflow_checks \in BOOLEAN
    /\ ret = Returned("new", <<>>, None)
    /\ nloads = 0
    /\ uids = <<>>
    /\ hist = <<>>
    /\ builder = CoreBuilderNew
    /\ built = [programs |-> <<>>, val |-> None]
    /\ mars = MarsBuilt
    /\ mret = Returned("build", <<>>, None)
    /\ mloads = 0
    /\ game = g
    /\ gret = Returned("default", <<>>, None)
    /\ text = t

\* the state after construction
Init == InitWith(GameDefault, TextNew(MarsDefaultInstruction))

\* mars.load_program(program, address)
LoadProgram ==
    /\ fault = "none"
    /\ nloads < MaxLoads
    /\ \E program \in Programs, address \in Addresses :
          LET o == LoadOutcome(memory, proceses, program, address) IN
          /\ memory' = o.memory
          /\ proceses' = o.proceses
          /\ uids' = Tags(LoadOutcome(memory, Tagged(proceses, uids), program, address).proceses,
                          0 - (nloads + 1))
          /\ ret' = Returned("load_program", <<program, address>>, Some(o.pid))
    /\ nloads' = nloads + 1
    /\ UNCHANGED <<fault, overflow_checks, hist, builderVars, simVars, gameVars, textVars>>

\* the latest MaxLoads steps, the one that ran `uids` last
Observe(h, queued) ==
    LET all == Append(h, [snap |-> queued, ran |-> Head(queued)]) IN
    IF Len(all) > MaxLoads THEN Tail(all) ELSE all

\* the state mars.step() leaves, given the outcome `o` of the call and the
\* outcome `shadow` of the same call on the queue tagged with load numbers
StepTo(observe, o, shadow) ==
    /\ ValuesWithinCap(o.memory)
    /\ ThreadsWithinCap(o.proceses)
    /\ memory' = o.memory
    /\ proceses' = o.proceses
    /\ fault' = o.fault
    /\ uids' = Tags(shadow.proceses, 0)
    /\ hist' = IF observe /\ o.fault = "none" THEN Observe(hist, uids) ELSE hist

\* mars.step(); `observe` says whether hist records the step
StepCall(observe) ==
    /\ fault = "none"
    /\ StepTo(observe,
              StepOutcome(memory, proceses, overflow_checks),
              StepOutcome(memory, Tagged(proceses, uids), overflow_checks))
    /\ ret' = Returned("step", <<>>, None)
    /\ UNCHANGED <<overflow_checks, nloads, builderVars, simVars, gameVars, textVars>>

Step == StepCall(FALSE)

StepObserved == StepCall(TRUE)

\* mars.reset()
Reset ==
    /\ fault = "none"
    /\ memory' = [j \in 0..(Size - 1) |-> DefaultInstruction]
    /\ proceses' = <<>>
    /\ uids' = <<>>
    /\ ret' = Returned("reset", <<>>, None)
    /\ UNCHANGED <<fault, overflow_checks, nloads, hist, builderVars, simVars, gameVars, textVars>>

Next == LoadProgram \/ Step \/ Reset

Spec == Init /\ [][Next]_vars

\* loads and steps, with the steps recorded in hist
NextObserved == LoadProgram \/ StepObserved

SpecObserved == Init /\ [][NextObserved]_vars

\* no load is the builder's latest call
NotBuilt == [programs |-> <<>>, val |-> None]

\* builder.core_size(size)
BuilderCoreSize ==
    /\ \E n \in {Size, Size + 1} : builder' = [builder EXCEPT !.core_size = n]
    /\ built' = NotBuilt
    /\ UNCHANGED <<overflow_checks, rootVars, simVars, gameVars, textVars>>

\* builder.pspace_size(size)
BuilderPSpaceSize ==
    /\ \E n \in {0, PSpaceSize} : builder' = [builder EXCEPT !.pspace_size = n]
    /\ built' = NotBuilt
    /\ UNCHANGED <<overflow_checks, rootVars, simVars, gameVars, textVars>>

\* builder.max_cycles(n)
BuilderMaxCycles ==
    /\ \E n \in {MaxCycles, DEFAULT_MAX_CYCLES} : builder' = [builder EXCEPT !.max_cycles = n]
    /\ built' = NotBuilt
    /\ UNCHANGED <<overflow_checks, rootVars, simVars, gameVars, textVars>>

\* builder.max_processes(n)
BuilderMaxProcesses ==
    /\ \E n \in {MaxProcesses, DEFAULT_MAX_PROCESSES} :
          builder' = [builder EXCEPT !.max_processes = n]
    /\ built' = NotBuilt
    /\ UNCHANGED <<overflow_checks, rootVars, simVars, gameVars, textVars>>

\* builder.version(version)
BuilderVersion ==
    /\ \E n \in {DEFAULT_VERSION, DEFAULT_VERSION + 1} : builder' = [builder EXCEPT !.version = n]
    /\ built' = NotBuilt
    /\ UNCHANGED <<overflow_checks, rootVars, simVars, gameVars, textVars>>

\* builder.max_length(n)
BuilderMaxLength ==
    /\ \E n \in 0..MaxLength : builder' = [builder EXCEPT !.max_length = n]
    /\ built' = NotBuilt
    /\ UNCHANGED <<overflow_checks, rootVars, simVars, gameVars, textVars>>

\* builder.min_distance(n)
BuilderMinDistance ==
    /\ \E n \in {0, ProgramDistance} : builder' = [builder EXCEPT !.min_distance = n]
    /\ built' = NotBuilt
    /\ UNCHANGED <<overflow_checks, rootVars, simVars, gameVars, textVars>>

\* builder.load(programs)
BuilderLoad ==
    /\ \E programs \in BuilderBatches :
          built' = [programs |-> programs, val |-> Some(CoreBuilderLoad(builder, programs))]
    /\ UNCHANGED <<builder, overflow_checks, rootVars, simVars, gameVars, textVars>>

NextBuilder ==
    \/ BuilderCoreSize \/ BuilderPSpaceSize \/ BuilderMaxCycles \/ BuilderMaxProcesses
    \/ BuilderVersion \/ BuilderMaxLength \/ BuilderMinDistance \/ BuilderLoad

SpecBuilder == Init /\ [][NextBuilder]_vars

\* mars.load_batch(programs)
MarsLoadBatch ==
    /\ mars.fault = "none"
    /\ mloads < MaxBatchLoads
    /\ \E programs \in MarsBatches :
          LET r == load_batch(mars, programs) IN
          /\ mars' = r.mars
          /\ mret' = Returned("load_batch", programs, r.result)
    /\ mloads' = mloads + 1
    /\ UNCHANGED <<overflow_checks, rootVars, builderVars, gameVars, textVars>>

\* the state mars.step() leaves, given what the call returned
MarsStepTo(r) ==
    /\ MarsWithinCap(r.mars)
    /\ mars' = r.mars
    /\ mret' = Returned("step", <<>>, r.result)

\* mars.step()
MarsStep ==
    /\ mars.fault = "none"
    /\ MarsStepTo(step(mars, overflow_checks))
    /\ UNCHANGED <<mloads, overflow_checks, rootVars, builderVars, gameVars, textVars>>

\* mars.reset()
MarsReset ==
    /\ mars.fault = "none"
    /\ mars' = reset(mars)
    /\ mret' = Returned("reset", <<>>, None)
    /\ UNCHANGED <<mloads, overflow_checks, rootVars, builderVars, gameVars, textVars>>

\* mars.reset_hard()
MarsResetHard ==
    /\ mars.fault = "none"
    /\ mars' = reset_hard(mars)
    /\ mret' = Returned("reset_hard", <<>>, None)
    /\ UNCHANGED <<mloads, overflow_checks, rootVars, builderVars, gameVars, textVars>>

NextMars == MarsLoadBatch \/ MarsStep \/ MarsReset \/ MarsResetHard

SpecMars == Init /\ [][NextMars]_vars

\* game.add_player_with_pin(program, address, pin)
GameAddPlayerWithPin ==
    /\ game.fault = "none"
    /\ \E program \in GamePrograms, address \in Addresses, pin \in GamePins :
          /\ Cardinality(DOMAIN game.pin_to_pid) < MaxPlayers \/ pin \in DOMAIN game.pin_to_pid
          /\ game' = add_player_with_pin(game, program, address, pin).game
          /\ gret' = Returned("add_player_with_pin", <<program, address, pin>>,
                              add_player_with_pin(game, program, address, pin).result)
    /\ UNCHANGED <<overflow_checks, rootVars, builderVars, simVars, textVars>>

\* game.add_player(program, address)
GameAddPlayer ==
    /\ game.fault = "none"
    /\ Cardinality(DOMAIN game.pin_to_pid) < MaxPlayers
    /\ \E program \in GamePrograms, address \in Addresses :
          /\ game' = add_player(game, program, address).game
          /\ gret' = Returned("add_player", <<program, address>>,
                              add_player(game, program, address).result)
    /\ UNCHANGED <<overflow_checks, rootVars, builderVars, simVars, textVars>>

\* the addresses `rng.gen()` draws: the least and the greatest Address
RandAddresses == {0, 0 - 1}

\* game.add_player_with_pin_rand(program, pin, rng)
GameAddPlayerWithPinRand ==
    /\ game.fault = "none"
    /\ \E program \in GamePrograms, pin \in GamePins, load_addr \in RandAddresses :
          /\ Cardinality(DOMAIN game.pin_to_pid) < MaxPlayers \/ pin \in DOMAIN game.pin_to_pid
          /\ game' = add_player_with_pin_rand(game, program, pin, load_addr).game
          /\ gret' = Returned("add_player_with_pin_rand", <<program, pin>>,
                              add_player_with_pin_rand(game, program, pin, load_addr).result)
    /\ UNCHANGED <<overflow_checks, rootVars, builderVars, simVars, textVars>>

\* game.add_player_rand(program, rng)
GameAddPlayerRand ==
    /\ game.fault = "none"
    /\ Cardinality(DOMAIN game.pin_to_pid) < MaxPlayers
    /\ \E program \in GamePrograms, load_addr \in RandAddresses :
          /\ game' = add_player_rand(game, program, load_addr).game
          /\ gret' = Returned("add_player_rand", <<program>>,
                              add_player_rand(game, program, load_addr).result)
    /\ UNCHANGED <<overflow_checks, rootVars, builderVars, simVars, textVars>>

\* game.step()
GameStepTo(r) ==
    /\ game' = r.game
    /\ gret' = Returned("step", <<>>, r.val)

GameStep ==
    /\ game.fault = "none"
    /\ game.cycle < MaxGameCycles
    /\ ValuesWithinCap(game.memory)
    /\ \A i \in 1..Len(game.processes) : Len(game.processes[i][3]) <= MaxThreads
    /\ GameStepTo(game_step(game, overflow_checks))
    /\ UNCHANGED <<overflow_checks, rootVars, builderVars, simVars, textVars>>

\* game.winner()
GameWinner ==
    /\ game.fault = "none"
    /\ gret' = Returned("winner", <<>>, winner(game))
    /\ UNCHANGED <<game, overflow_checks, rootVars, builderVars, simVars, textVars>>

(***************************************************************************)
(* One Mov of every modifier: a Game whose only player is a Mov followed   *)
(* by the cell it copies, as in the tests mov_a .. mov_x of                *)
(* simulation/mod.rs, then stepped.                                        *)
(***************************************************************************)
\* where the B operand of the Mov points: the source cell itself, the cell
\* behind it, and a cell beyond the end of memory
MovTargets == {1, 2, Size + 2}

\* the programs of the tests mov_a .. mov_x
MovPrograms ==
    { <<Instruction("Mov", modifier, 1, "Direct", target, "Direct"),
        Instruction("Nop", "F", 1, "Immediate", 2, "BIndirect")>> :
      modifier \in Opmode, target \in MovTargets }

InitMov ==
    \E program \in MovPrograms, address \in {0, Size - 1, 2 * Size - 1} :
        InitWith(load_program(GameDefault, program, address), TextNew(MarsDefaultInstruction))

SpecMov == InitMov /\ [][GameStep]_vars

(***************************************************************************)
(* One instruction of every arithmetic, comparing and counting opcode and  *)
(* of every modifier: a crate-root Mars whose only program is the          *)
(* instruction followed by the two cells it works on, then stepped.        *)
(***************************************************************************)
OpsCodes == {"Add", "Sub", "Mul", "Div", "Mod", "Seq", "Cmp", "Sne", "Djn"}

\* the values of the fields of the two cells
OpsValues == {0, 1, Size - 1}

\* the cell the A operand names: the one behind the instruction, which the
\* program fills, or the last one, which keeps the default instruction
OpsSources == {1, Size - 1}

OpsProgramsOf(codes) ==
    { <<Instruction(code, modifier, source, "Direct", 2, "Direct"),
        Instruction("Dat", "F", v[1], "Immediate", v[2], "Immediate"),
        Instruction("Dat", "F", v[3], "Immediate", v[4], "Immediate")>> :
      code \in codes, modifier \in Opmode, source \in OpsSources,
      v \in [1..4 -> OpsValues] }

OpsPrograms == OpsProgramsOf(OpsCodes)

\* the OpCode of simulation/mars.rs has no Cmp of its own: OpCode::Cmp is
\* a constant equal to OpCode::Seq
MarsOpsPrograms == OpsProgramsOf(OpsCodes \ {"Cmp"})

\* the state after load_program(program, 0) on a new Mars
InitOps ==
    \E program \in OpsPrograms :
        LET o == LoadOutcome([j \in 0..(Size - 1) |-> DefaultInstruction], <<>>, program, 0) IN
        /\ memory = o.memory
        /\ proceses = o.proceses
        /\ fault = "none"
        /\ overflow_checks \in BOOLEAN
        /\ ret = Returned("load_program", <<program, 0>>, Some(o.pid))
        /\ nloads = 1
        /\ uids = <<0 - 1>>
        /\ hist = <<>>
        /\ builder = CoreBuilderNew
        /\ built = [programs |-> <<>>, val |-> None]
        /\ mars = MarsBuilt
        /\ mret = Returned("build", <<>>, None)
        /\ mloads = 0
        /\ game = GameDefault
        /\ gret = Returned("default", <<>>, None)
        /\ text = TextNew(MarsDefaultInstruction)

SpecOps == InitOps /\ [][Step]_vars

\* the same programs on a Mars<T> of simulation/mars.rs: the state after
\* load_batch(vec![(0, None, program)]) on a new Mars
InitMarsOps ==
    \E program \in MarsOpsPrograms :
        /\ memory = [j \in 0..(Size - 1) |-> DefaultInstruction]
        /\ proceses = <<>>
        /\ fault = "none"
        /\ overflow_checks \in BOOLEAN
        /\ ret = Returned("new", <<>>, None)
        /\ nloads = 0
        /\ uids = <<>>
        /\ hist = <<>>
        /\ builder = CoreBuilderNew
        /\ built = [programs |-> <<>>, val |-> None]
        /\ mars = load_batch(MarsBuilt, <<<<0, None, program>>>>).mars
        /\ mret = Returned("load_batch", <<<<0, None, program>>>>,
                           load_batch(MarsBuilt, <<<<0, None, program>>>>).result)
        /\ mloads = 1
        /\ game = GameDefault
        /\ gret = Returned("default", <<>>, None)
        /\ text = TextNew(MarsDefaultInstruction)

SpecMarsOps == InitMarsOps /\ [][MarsStep]_vars

(***************************************************************************)
(* The round trip through text: an instruction is formatted, the text is   *)
(* parsed.                                                                 *)
(***************************************************************************)
InitText == \E instr \in TextInstructions : InitWith(GameDefault, TextNew(instr))

\* format!("{}", instr)
TextFormat ==
    /\ text.stage = "new"
    /\ text' = [text EXCEPT !.stage = "formatted", !.text = InstructionDisplay(text.instr)]
    /\ UNCHANGED <<overflow_checks, rootVars, builderVars, simVars, gameVars>>

\* parse_instruction(text)
TextParse ==
    /\ text.stage = "formatted"
    /\ text' = [text EXCEPT !.stage = "parsed", !.parsed = parse_instruction(text.text)]
    /\ UNCHANGED <<overflow_checks, rootVars, builderVars, simVars, gameVars>>

NextText == TextFormat \/ TextParse

SpecText == InitText /\ [][NextText]_vars

(***************************************************************************)
(* The Mars of simulation/mod.rs used directly, without the pins of a      *)
(* Game: programs are loaded, steps are taken, the Mars is reset.          *)
(***************************************************************************)
\* mars.load_program(program, address)
SimLoadProgram ==
    /\ game.fault = "none"
    /\ Len(game.processes) < MaxPlayers
    /\ \E program \in GamePrograms, address \in Addresses :
          /\ game' = load_program(game, program, address)
          /\ gret' = Returned("load_program", <<program, address>>, Some(Len(game.processes)))
    /\ UNCHANGED <<overflow_checks, rootVars, builderVars, simVars, textVars>>

\* the cells the callers of set_memory write
SetMemoryInstructions == { <<Imp>>, <<Imp, MarsDefaultInstruction>> }

\* mars.set_memory(instructions, address)
SimSetMemory ==
    /\ game.fault = "none"
    /\ \E instructions \in SetMemoryInstructions, address \in Addresses :
          /\ game' = [game EXCEPT !.memory = set_memory(game.memory, instructions, address)]
          /\ gret' = Returned("set_memory", <<instructions, address>>, None)
    /\ UNCHANGED <<overflow_checks, rootVars, builderVars, simVars, textVars>>

\* the batches the callers of load_programs_with_shared_pspace load
SharedPrograms == { <<>>, <<<<Imp>>>>, <<<<Imp>>, <<Instruction("Spl", "B", 0, "Direct", 0, "Direct")>>>> }

\* the addresses they load them at
SharedAddresses == { <<0>>, <<0, 2>> }

\* mars.load_programs_with_shared_pspace(programs, addresses)
SimLoadProgramsWithSharedPspace ==
    /\ game.fault = "none"
    /\ \E programs \in SharedPrograms, addresses \in SharedAddresses :
          /\ Len(game.processes) + Len(programs) <= MaxPlayers
          /\ game' = load_programs_with_shared_pspace(game, programs, addresses).game
          /\ gret' = Returned("load_programs_with_shared_pspace", <<programs, addresses>>,
                              load_programs_with_shared_pspace(game, programs, addresses).pids)
    /\ UNCHANGED <<overflow_checks, rootVars, builderVars, simVars, textVars>>

\* the state mars.step() leaves, given the outcome of the call
SimStepTo(r) ==
    /\ game' = [r.game EXCEPT !.fault = r.fault]
    /\ gret' = Returned("step", <<>>, r.val)

\* mars.step()
SimStep ==
    /\ game.fault = "none"
    /\ game.cycle < MaxGameCycles
    /\ ValuesWithinCap(game.memory)
    /\ \A i \in 1..Len(game.processes) : Len(game.processes[i][3]) <= MaxThreads
    /\ SimStepTo(sim_step(game, overflow_checks))
    /\ UNCHANGED <<overflow_checks, rootVars, builderVars, simVars, textVars>>

\* mars.reset()
SimReset ==
    /\ game.fault = "none"
    /\ game' = sim_reset(game)
    /\ gret' = Returned("reset", <<>>, None)
    /\ UNCHANGED <<overflow_checks, rootVars, builderVars, simVars, textVars>>

NextSim ==
    \/ SimLoadProgram \/ SimSetMemory \/ SimLoadProgramsWithSharedPspace
    \/ SimStep \/ SimReset

SpecSim == Init /\ [][NextSim]_vars

NextGame ==
    \/ GameAddPlayerWithPin \/ GameAddPlayer
    \/ GameAddPlayerWithPinRand \/ GameAddPlayerRand
    \/ GameStep \/ GameWinner

SpecGame == Init /\ [][NextGame]_vars

\* ---------------------------------------------------------------------
\* Properties of the crate-root Mars (src/src/lib.rs)

\* a step that returned normally
StepReturned == ret'.op = "step" /\ fault' = "none"

IsPrefix(s, t) == Len(s) <= Len(t) /\ SubSeq(t, 1, Len(s)) = s

PcsInUse ==
    UNION { { proceses[i].threads[k] : k \in 1..Len(proceses[i].threads) } :
            i \in 1..Len(proceses) }

\* C1: a step runs the front thread of the front process; afterwards that
\* process is the last one of the scheduler if it still has threads and is
\* gone otherwise, and the other processes keep their order and contents.
C1_FrontRunsThenGoesToBack ==
    [][StepReturned =>
          LET front == Head(proceses)
              n == Len(proceses) IN
          \/ /\ proceses' = Tail(proceses)
             /\ Tail(front.threads) = <<>>
          \/ /\ Len(proceses') = n
             /\ SubSeq(proceses', 1, n - 1) = Tail(proceses)
             /\ proceses'[n].pid = front.pid
             /\ proceses'[n].threads # <<>>
             /\ IsPrefix(Tail(front.threads), proceses'[n].threads)]_vars

C1_Witness ==
    /\ ret.op = "step"
    /\ fault = "none"
    /\ Len(proceses) >= 2
    /\ Len(proceses[Len(proceses)].threads) >= 2

\* C2: in every window of as many consecutive steps as there are processes
\* at its start, each of those processes runs exactly once (processes are
\* told apart by the load that made them).
C2_EachRunsOncePerRound ==
    \A i \in 1..Len(hist) :
        LET n == Len(hist[i].snap) IN
        (i + n - 1 <= Len(hist)) =>
            \A k \in 1..n :
                Cardinality({ j \in i..(i + n - 1) : hist[j].ran = hist[i].snap[k] }) = 1

\* a full round of three processes was observed, one of which died in it
C2_Witness ==
    /\ Len(hist) = 3
    /\ Len(hist[1].snap) = 3
    /\ Len(hist[3].snap) = 2
    /\ Len(proceses) = 2

\* C3: a process is queued exactly when it has threads: every queued process
\* has a thread, and a step queues the process it ran iff a thread is left.
C3_QueuedIffThreads ==
    /\ [](\A i \in 1..Len(proceses) : proceses[i].threads # <<>>)
    /\ [][StepReturned =>
             LET left == StepOutcome(memory, proceses, overflow_checks).threads
                 pid == Head(proceses).pid
                 n == Len(proceses') IN
             IF left # <<>>
             THEN n = Len(proceses) /\ proceses'[n].pid = pid /\ proceses'[n].threads = left
             ELSE n = Len(proceses) - 1]_vars

\* a step took the last thread of one process and another process is queued
C3_Witness ==
    /\ ret.op = "step"
    /\ fault = "none"
    /\ Len(proceses) = 1
    /\ Len(uids) = 1
    /\ nloads = 2

\* C4: every program counter of every thread is a cell of memory.
C4_PcsInRange == \A pc \in PcsInUse : pc \in 0..(Size - 1)

\* C5: both displacements of every cell of memory are in 0..Size-1.
C5_DisplacementsInRange ==
    \A j \in 0..(Size - 1) :
        /\ memory[j].a.value \in 0..(Size - 1)
        /\ memory[j].b.value \in 0..(Size - 1)

\* C7: no two queued processes have the same pid.
C7_PidsDistinct ==
    \A i, j \in 1..Len(proceses) : i # j => proceses[i].pid # proceses[j].pid

\* a load that returned
LoadReturned == ret'.op = "load_program"

\* C9: a load of n cells at address d writes the i-th of them to the cell
\* (d + i) mod Size, for every i < n, and no other cell changes.
C9_LoadWraps ==
    [][LoadReturned =>
          LET program == Normalize(ret'.args[1])
              d == ret'.args[2]
              n == Len(program) IN
          /\ \A i \in 0..(n - 1) : memory'[(d + i) % Size] = program[i + 1]
          /\ \A j \in 0..(Size - 1) :
                (\A i \in 0..(n - 1) : (d + i) % Size # j) => memory'[j] = memory[j]]_vars

\* a program was loaded across the end of memory, over cells already written
C9_Witness ==
    /\ ret.op = "load_program"
    /\ (ret.args[2] % Size) + Len(ret.args[1]) > Size
    /\ nloads >= 2
    /\ memory[0] = ret.args[1][2]
    /\ memory[0] # DefaultInstruction

\* ---------------------------------------------------------------------
\* Properties of CoreBuilder::load (src/src/simulation/builder.rs)

\* C10: a load succeeds exactly when every program has at most max_length
\* instructions, and fails with ProgramTooLong otherwise.
C10_LoadAcceptsUpToMaxLength ==
    built.val # None =>
        LET fits == \A i \in 1..Len(built.programs) :
                        Len(built.programs[i][2]) <= builder.max_length
            r == built.val[1]
        IN  /\ fits /\ builder.min_distance < ProgramDistance => r.ok
            /\ ~fits => ~r.ok /\ r.err = "ProgramTooLong"

\* ---------------------------------------------------------------------
\* Properties of Mars<T> (src/src/simulation/mars.rs)

\* the threads of the process that is running: the one in `pc`, then its queue
RunningThreads(m) == <<m.pc>> \o Head(m.process_queue)[2]

\* a step that ran a Dat and returned
DatStepReturned ==
    /\ mret'.op = "step"
    /\ mars.fault = "none" /\ mars'.fault = "none"
    /\ ~mars.halted
    /\ mars.cycle < mars.max_cycles
    /\ fetch(mars, mars.pc).op.code = "Dat"

\* C6: a Dat removes the thread that ran it and no other: the threads the
\* process had behind it are the threads the process has afterwards, in the
\* same order, and the process is gone iff there was none.
C6_DatRemovesOneThread ==
    [][DatStepReturned =>
          LET others == Len(mars.process_queue) - 1
              after == IF others = 0
                       THEN IF mars'.process_queue = <<>> THEN <<>> ELSE RunningThreads(mars')
                       ELSE IF Len(mars'.process_queue) = others + 1
                            THEN mars'.process_queue[others + 1][2]
                            ELSE <<>>
          IN  after = Tail(RunningThreads(mars))]_vars

\* a load_batch that returned Ok
BatchLoaded == mret'.op = "load_batch" /\ mret'.val[1] = "Ok"

\* C8: each program a load brings in becomes one process with one thread, at
\* its address modulo Size, behind every process there was: the threads in
\* the order they will first run are the old ones, then the new ones in the
\* order of loading.
C8_LoadedBehindInLoadOrder ==
    [][BatchLoaded =>
          LET programs == mret'.args
              old == IF mars.process_queue = <<>> THEN <<>> ELSE pcs(mars)
          IN  /\ Len(mars'.process_queue) = Len(mars.process_queue) + Len(programs)
              /\ pcs(mars') = old \o [i \in 1..Len(programs) |-> programs[i][1] % Size]]_vars

\* C11: a load_batch with two placements closer than min_distance on the
\* circular arena returns Err(InvalidDistance) and changes nothing: no cell
\* is written and no process is queued.
C11_CloseBatchFails ==
    [][LET programs == mret'.args
           n == size(mars)
           gap(x, y) == IF x >= y THEN x - y ELSE y - x
           distance(x, y) == IF gap(x, y) <= n - gap(x, y) THEN gap(x, y) ELSE n - gap(x, y)
           close == \E i, j \in 1..Len(programs) :
                       /\ i < j
                       /\ distance(programs[i][1] % n, programs[j][1] % n) < mars.min_distance
       IN  (mret'.op = "load_batch" /\ close) =>
              /\ mret'.val = ErrResult("InvalidDistance")
              /\ mars' = mars]_vars

\* C12: load_batch with an empty vector returns Err(EmptyLoad) and leaves the
\* memory, the process queue, the halted flag and every other field as they were.
C12_EmptyBatchRefused ==
    [][(mret'.op = "load_batch" /\ mret'.args = <<>>) =>
          /\ mret'.val = ErrResult("EmptyLoad")
          /\ mars' = mars]_vars

\* an empty load_batch has returned on a Mars that has programs running
C12_Witness ==
    /\ mret.op = "load_batch"
    /\ mret.args = <<>>
    /\ mret.val = ErrResult("EmptyLoad")
    /\ mars.process_queue # <<>>
    /\ ~mars.halted
    /\ mars.cycle > 0

\* ---------------------------------------------------------------------
\* Properties of Game (src/src/game/mod.rs)

\* C13: add_player_with_pin with a pin that is in use returns PinConflict and
\* changes nothing (memory, processes and pin_to_pid are as before); with a
\* pin that is not in use it returns Ok(pin), loads the program as one more
\* process and records the pin with the pid of that process, keeping the
\* other pins.
C13_PinConflictChangesNothing ==
    [][gret'.op = "add_player_with_pin" =>
          LET pin == gret'.args[3] IN
          IF pin \in DOMAIN game.pin_to_pid
          THEN /\ gret'.val = ErrResult(<<"PinConflict", pin>>)
               /\ game' = game
          ELSE /\ gret'.val = OkResult(pin)
               /\ Len(game'.processes) = Len(game.processes) + 1
               /\ DOMAIN game'.pin_to_pid = (DOMAIN game.pin_to_pid) \cup {pin}
               /\ game'.pin_to_pid[pin] = game'.processes[Len(game'.processes)][1]
               /\ \A p \in DOMAIN game.pin_to_pid : game'.pin_to_pid[p] = game.pin_to_pid[p]]_vars

\* a PinConflict has been returned by a Game with two players
C13_Witness ==
    /\ gret.op = "add_player_with_pin"
    /\ gret.val = ErrResult(<<"PinConflict", gret.args[3]>>)
    /\ Len(game.processes) = 2
    /\ Cardinality(DOMAIN game.pin_to_pid) = 2

\* ---------------------------------------------------------------------
\* More properties of Mars<T> (src/src/simulation/mars.rs)

\* C14: a step() of a halted Mars returns Err(Halted) and leaves every field
\* (memory, process queue, pc, cycle, halted) as it was, however often it is
\* called.
C14_HaltedStepChangesNothing ==
    [][(mret'.op = "step" /\ mars.halted) =>
          /\ mret'.val = ErrResult("Halted")
          /\ mars' = mars]_vars

\* a step has been refused on a Mars that ran programs until max_cycles
C14_Witness ==
    /\ mret.op = "step"
    /\ mret.val = ErrResult("Halted")
    /\ mars.halted
    /\ mars.process_queue # <<>>
    /\ mars.cycle = mars.max_cycles

\* C15: halted() is true whenever the process queue is empty or the cycle
\* counter has reached max_cycles, already in the state the step that got
\* there leaves.
C15_HaltedWhenDone ==
    (mars.fault = "none" /\ (mars.process_queue = <<>> \/ mars.cycle >= mars.max_cycles))
        => mars.halted

\* C16: every step() of a Mars that is loaded and not halted returns, and
\* either leaves the Mars halted or has used one more of the max_cycles
\* cycles: the calls reach a halted Mars after at most max_cycles executed
\* instructions, whatever the programs do.
C16_StepsReachHalted ==
    [][(mret'.op = "step" /\ mars.fault = "none" /\ ~mars.halted) =>
          /\ mars'.fault = "none"
          /\ mars'.halted \/ mars'.cycle = mars.cycle + 1
          /\ mars'.cycle <= mars.max_cycles]_vars

\* C17: a step() that executes an instruction adds exactly one to the cycle
\* counter, also when the instruction kills the last thread of the last
\* process; a step() that executes nothing (the Mars is halted, or the cycle
\* counter is at max_cycles) leaves the counter as it is.
C17_ExecutedStepCountsOneCycle ==
    [][(mret'.op = "step" /\ mars.fault = "none" /\ mars'.fault = "none") =>
          IF mars.halted \/ mars.cycle >= mars.max_cycles
          THEN mars'.cycle = mars.cycle
          ELSE mars'.cycle = mars.cycle + 1]_vars

\* C18: no process ever has more than max_processes threads.  The threads of
\* the process that is running are the one in `pc` and the ones in its queue;
\* the threads of every other process are the ones in its queue.
C18_ThreadsWithinCap ==
    (mars.fault = "none" /\ mars.process_queue # <<>>) =>
        /\ Len(RunningThreads(mars)) <= mars.max_processes
        /\ \A i \in 2..Len(mars.process_queue) :
              Len(mars.process_queue[i][2]) <= mars.max_processes

\* ---------------------------------------------------------------------
\* More properties of the crate-root Mars (src/src/lib.rs)

\* C19: after a step that ran an Spl, the thread queue of the process that ran
\* it ends with the continuation (pc + 1) followed by the new thread (the
\* address of the A operand), both modulo Size: the continuation runs first.
C19_SplContinuationBeforeNewThread ==
    [][(StepReturned /\ memory[Head(Head(proceses).threads)].op.code = "Spl") =>
          LET pc == Head(Head(proceses).threads)
              target == TargetAddress(memory, pc, memory[pc].a, overflow_checks).v
              threads == proceses'[Len(proceses')].threads
              k == Len(threads)
          IN  /\ k >= 2
              /\ threads[k - 1] = (pc + 1) % Size
              /\ threads[k] = target % Size]_vars

\* C20: a step that ran a Jmp, or a Jmz or Jmn whose test succeeded, queues as
\* the next program counter of the thread the address of the A operand under
\* the operand's addressing mode (for Immediate the cell of the instruction
\* itself), modulo Size.
C20_JumpToAOperandAddress ==
    [][LET pc == Head(Head(proceses).threads)
           instr == memory[pc]
           cell == memory[TargetAddress(memory, pc, instr.b, overflow_checks).v % Size]
           jumps == \/ instr.op.code = "Jmp"
                    \/ instr.op.code = "Jmz" /\ JmzTest(instr.op.mode, cell)
                    \/ instr.op.code = "Jmn" /\ JmnTest(instr.op.mode, cell)
           target == TargetAddress(memory, pc, instr.a, overflow_checks).v
           threads == proceses'[Len(proceses')].threads
       IN  (StepReturned /\ instr.op.code \in {"Jmp", "Jmz", "Jmn"} /\ jumps) =>
              threads[Len(threads)] = target % Size]_vars

\* ---------------------------------------------------------------------
\* Properties of Game (src/src/game/mod.rs)

\* C21: winner() returns the identifier of the sole remaining player: when it
\* returns Some(x), x is a pin a player was added under (the value
\* add_player* returned), and that pin is the one of the process left in the
\* game; it returns None when zero or several processes are alive.
C21_WinnerIsThePlayersPin ==
    gret.op = "winner" =>
        IF Len(game.processes) = 1
        THEN /\ gret.val # None
             /\ gret.val[1] \in DOMAIN game.pin_to_pid
             /\ game.pin_to_pid[gret.val[1]] = Head(game.processes)[1]
        ELSE gret.val = None

\* C22: Game::step returns Some(pin) exactly when the step killed the last
\* thread of a player's process, the pin being the one that player was added
\* under; every other step returns None.  (Steps that Mars::step itself ends
\* with a panic are left aside.)
C22_StepReturnsPinOfKilled ==
    [][(gret'.op = "step" /\ game.fault = "none" /\ game'.fault \in {"none", "expect pin"}) =>
          IF game'.fault = "none" /\ Len(game'.processes) = Len(game.processes)
          THEN gret'.val = None
          ELSE /\ game'.fault = "none"
               /\ gret'.val # None
               /\ gret'.val[1] \in DOMAIN game.pin_to_pid
               /\ game.pin_to_pid[gret'.val[1]] = Head(game.processes)[1]]_vars

\* the instruction the next step of the Game's Mars fetches
GameFetched == game.memory[SimRem(Head(Head(game.processes)[3]), Size)]

\* C23: after a successful load, step() never ends in a fatal error
\* (unimplemented path, out-of-range index, integer underflow, division by
\* zero), whatever the instruction it executes.  (The documented panic of a
\* step without processes and the failed pin lookup of Game::step are left
\* aside.)
C23_StepNeverPanics ==
    gret.op = "step" => game.fault \in {"none", "assert", "expect pin"}

\* C24: private storage is per process: a step that executes Stp or Ldp
\* returns normally and leaves the private storage of every other process
\* as it was.
C24_PrivateStoragePerProcess ==
    [][(gret'.op = "step" /\ game.fault = "none" /\ game.processes # <<>>
            /\ GameFetched.op.code \in {"Stp", "Ldp"}) =>
          /\ game'.fault = "none"
          /\ \A i \in 2..Len(game.processes) :
                \E j \in 1..Len(game'.processes) :
                   /\ game'.processes[j][1] = game.processes[i][1]
                   /\ game'.processes[j][2] = game.processes[i][2]]_vars

\* ---------------------------------------------------------------------
\* Thread counts, single programs and the order of a step

\* C25: after every load and every step the thread count the simulator
\* reports is the number of threads of all processes, the thread that is
\* about to execute included.
C25_ThreadCountCountsRunning ==
    (mret.op \in {"load_batch", "step"} /\ mars.fault = "none"
        /\ ~mars.halted /\ mars.process_queue # <<>>) =>
        process_count(mars) = Len(RunningThreads(mars)) + SumLens(Tail(mars.process_queue))

\* C26 as stated: when the only thread of the only process runs a Dat, the
\* step returns Ok(Terminated) and leaves the thread queue and the process
\* queue empty and the Mars halted; every step of a halted Mars returns
\* Halted.
C26_SoleDatReturnsTerminated ==
    [][(mret'.op = "step" /\ mars.fault = "none") =>
          /\ (~mars.halted /\ mars.cycle < mars.max_cycles
                /\ Len(mars.process_queue) = 1 /\ mars.process_queue[1][2] = <<>>
                /\ fetch(mars, mars.pc).op.code = "Dat") =>
                   /\ mret'.val = OkResult("Terminated")
                   /\ mars'.process_queue = <<>>
                   /\ mars'.halted
          /\ mars.halted => mret'.val = ErrResult("Halted")]_vars

\* C26: when the only thread of the only process runs a Dat, the step
\* returns Ok(Halted), not Terminated, and leaves the thread queue and the
\* process queue empty and the Mars halted; every later step returns
\* Err(Halted).
C26_SoleDatReturnsHalted ==
    [][(mret'.op = "step" /\ mars.fault = "none") =>
          /\ (~mars.halted /\ mars.cycle < mars.max_cycles
                /\ Len(mars.process_queue) = 1 /\ mars.process_queue[1][2] = <<>>
                /\ fetch(mars, mars.pc).op.code = "Dat") =>
                   /\ mret'.val = OkResult("Halted")
                   /\ mars'.fault = "none"
                   /\ mars'.process_queue = <<>>
                   /\ mars'.halted
          /\ mars.halted => mret'.val = ErrResult("Halted") /\ mars' = mars]_vars

\* a Mars whose first step ran the Dat of its only thread has been stepped
\* again
C26_Witness ==
    /\ mret = Returned("step", <<>>, ErrResult("Halted"))
    /\ mars.event = "Halted"
    /\ mars.ir.op.code = "Dat"
    /\ mars.cycle = 0
    /\ mars.process_queue = <<>>
    /\ mloads = 1

\* C27: the imp MOV.I $0, $1 running alone: a step taken in cycle k with the
\* thread at cell k, which holds the imp, returns Stepped and leaves the imp
\* in cells k and (k + 1) mod M and the thread at (k + 1) mod M, all the way
\* round the arena; the step taken when max_cycles cycles have run returns
\* MaxCyclesReached and leaves the one process alive.
C27_ImpAdvancesRoundTheArena ==
    [][(mret'.op = "step" /\ mars.fault = "none" /\ ~mars.halted
            /\ Len(mars.process_queue) = 1 /\ mars.process_queue[1][2] = <<>>
            /\ fetch(mars, mars.pc) = Imp) =>
          IF mars.cycle < mars.max_cycles
          THEN /\ mret'.val = OkResult("Stepped")
               /\ mars'.fault = "none"
               /\ fetch(mars', mars.pc) = Imp
               /\ fetch(mars', (mars.pc + 1) % Size) = Imp
               /\ mars'.pc = (mars.pc + 1) % Size
               /\ Len(mars'.process_queue) = 1 /\ mars'.process_queue[1][2] = <<>>
               /\ mars'.cycle = mars.cycle + 1
          ELSE /\ mret'.val = OkResult("MaxCyclesReached")
               /\ mars'.halted
               /\ Len(mars'.process_queue) = 1]_vars

\* the imp, loaded alone at cell 0, has gone round the arena and the run has
\* ended with MaxCyclesReached
C27_Witness ==
    /\ mret = Returned("step", <<>>, OkResult("MaxCyclesReached"))
    /\ mloads = 1
    /\ mars.cycle = MaxCycles
    /\ mars.pc = MaxCycles % Size
    /\ Len(mars.process_queue) = 1
    /\ mars.memory = [j \in 1..Size |-> Imp]

\* C28: Mov copies the fields the modifier selects from the source cell to
\* the destination cell (A: A to A, B: B to B, AB: A to B, BA: B to A, F:
\* both pairwise, X: both crosswise, I: the whole instruction), leaves the
\* rest of the destination and every other cell as they were, and writes
\* the cell at the destination address reduced modulo the size.
C28_MovCopiesSelectedFields ==
    [][(gret'.op = "step" /\ game.fault = "none" /\ game.processes # <<>>
            /\ GameFetched.op.code = "Mov"
            /\ GameFetched.a.mode = "Direct" /\ GameFetched.b.mode = "Direct") =>
          LET pc == Head(Head(game.processes)[3])
              modifier == GameFetched.op.mode
              src == game.memory[(pc + GameFetched.a.value) % Size]
              at == (pc + GameFetched.b.value) % Size
              dst == game.memory[at]
          IN  /\ game'.fault = "none"
              /\ game'.memory[at].op = (IF modifier = "I" THEN src.op ELSE dst.op)
              /\ game'.memory[at].a =
                    (CASE modifier \in {"A", "F", "I"} -> src.a
                       [] modifier \in {"BA", "X"} -> src.b
                       [] OTHER -> dst.a)
              /\ game'.memory[at].b =
                    (CASE modifier \in {"B", "F", "I"} -> src.b
                       [] modifier \in {"AB", "X"} -> src.a
                       [] OTHER -> dst.b)
              /\ \A j \in 0..(Size - 1) : j # at => game'.memory[j] = game.memory[j]]_vars

\* a Mov.X loaded at the last cell has written, crosswise, the cell its B
\* operand reaches beyond the end of memory
C28_Witness ==
    /\ gret.op = "step"
    /\ game.fault = "none"
    /\ game.cycle = 1
    /\ game.memory[Size - 1] = Instruction("Mov", "X", 1, "Direct", Size + 2, "Direct")
    /\ game.memory[0] = Instruction("Nop", "F", 1, "Immediate", 2, "BIndirect")
    /\ game.memory[1] = [MarsDefaultInstruction EXCEPT !.a = Field(2, "BIndirect"),
                                                       !.b = Field(1, "Immediate")]

\* ---------------------------------------------------------------------
\* Text

\* C29: formatting an instruction as text and parsing the text back yields
\* the original instruction, for every opcode, modifier and pair of
\* addressing modes: the sigil of each mode parses to that mode and the B
\* operand is kept.
C29_FormatThenParseIsIdentity ==
    text.stage = "parsed" =>
        /\ text.parsed.kind = "Ok"
        /\ text.parsed.val = text.instr

\* ---------------------------------------------------------------------
\* The order of a step of Mars<T> (src/src/simulation/mars.rs)

\* C30: within one step the pre-decrements of the A and then of the B
\* operand are applied before the opcode executes and the post-increments
\* of the A and then of the B operand after it.  For a Nop, which writes
\* nothing itself, the memory after the step is therefore the memory before
\* it with the pointer of every pre-decrement operand one lower and the
\* pointer of every post-increment operand one higher (modulo the size).
C30_SideEffectsInOrder ==
    [][(mret'.op = "step" /\ mars.fault = "none" /\ mars'.fault = "none"
            /\ ~mars.halted /\ mars.cycle < mars.max_cycles
            /\ fetch(mars, mars.pc).op.code = "Nop") =>
          LET ir == fetch(mars, mars.pc)
              Bumped(mem, fld, modes, delta) ==
                  IF fld.mode \notin modes THEN mem
                  ELSE IF IsAIndirect(fld.mode)
                  THEN [mem EXCEPT ![((mars.pc + fld.value) % Size) + 1].a.value = @ + delta]
                  ELSE [mem EXCEPT ![((mars.pc + fld.value) % Size) + 1].b.value = @ + delta]
              expected ==
                  Bumped(Bumped(Bumped(Bumped(mars.memory,
                                              ir.a, PreDecrementModes, 0 - 1),
                                       ir.b, PreDecrementModes, 0 - 1),
                                ir.a, PostIncrementModes, 1),
                         ir.b, PostIncrementModes, 1)
          IN  \A j \in 1..Size :
                 /\ mars'.memory[j].op = expected[j].op
                 /\ mars'.memory[j].a.mode = expected[j].a.mode
                 /\ mars'.memory[j].b.mode = expected[j].b.mode
                 /\ (mars'.memory[j].a.value - expected[j].a.value) % Size = 0
                 /\ (mars'.memory[j].b.value - expected[j].b.value) % Size = 0]_vars

\* ---------------------------------------------------------------------
\* Operand side effects and arithmetic of the crate-root Mars (src/src/lib.rs)

\* the instruction the next step of the crate-root Mars fetches
RootFetched == memory[Head(Head(proceses).threads)]

\* C31: a step whose instruction has an A operand in A- or B-indirect
\* pre-decrement mode (and a B operand without side effect) returns
\* normally and leaves the displacement the mode selects in the pointer
\* cell one lower modulo the size: 0 becomes Size - 1.
C31_PreDecrementWrapsBelowZero ==
    [][(ret'.op = "step" /\ fault = "none" /\ proceses # <<>>
            /\ InBounds(Head(Head(proceses).threads))
            /\ RootFetched.a.mode \in PreDecrementModes
            /\ RootFetched.b.mode \in {"Immediate", "Direct"}
            /\ RootFetched.op.code = "Nop"
            /\ InBounds(Head(Head(proceses).threads) + RootFetched.a.value)) =>
          LET at == Head(Head(proceses).threads) + RootFetched.a.value
              old == PointerValue(memory[at], RootFetched.a.mode)
          IN  /\ fault' = "none"
              /\ PointerValue(memory'[at], RootFetched.a.mode) = (old - 1) % Size]_vars

\* C32: a step whose instruction has an A operand in A- or B-indirect
\* post-increment mode (and a B operand without side effect), and which
\* writes nothing itself, returns normally and leaves the displacement the
\* mode selects in the pointer cell one higher modulo the size: Size - 1
\* becomes 0.
C32_PostIncrementWrapsAtSize ==
    [][(ret'.op = "step" /\ fault = "none" /\ proceses # <<>>
            /\ InBounds(Head(Head(proceses).threads))
            /\ RootFetched.a.mode \in PostIncrementModes
            /\ RootFetched.b.mode \in {"Immediate", "Direct"}
            /\ RootFetched.op.code = "Nop"
            /\ InBounds(Head(Head(proceses).threads) + RootFetched.a.value)) =>
          LET at == Head(Head(proceses).threads) + RootFetched.a.value
              old == PointerValue(memory[at], RootFetched.a.mode)
          IN  /\ fault' = "none"
              /\ PointerValue(memory'[at], RootFetched.a.mode) = (old + 1) % Size]_vars

\* the cells the operands of the fetched instruction name, both Direct
RootSource == memory[Head(Head(proceses).threads) + RootFetched.a.value]
RootDestination == memory[Head(Head(proceses).threads) + RootFetched.b.value]

\* (x op y) mod M for Add, Sub and Mul
ModularValue(code, x, y) ==
    CASE code = "Add" -> (x + y) % Size
      [] code = "Sub" -> (x - y) % Size
      [] code = "Mul" -> (x * y) % Size

\* C33: Add, Sub and Mul route the fields as the modifier says (A: source A
\* into destination A, B: source B into destination B, AB: source A into
\* destination B, BA: source B into destination A, F and I: both pairwise,
\* X: both crosswise): each selected field of the destination becomes (its
\* old value op the routed source field) mod M, from the values before the
\* instruction, and the fields not selected are unchanged.
C33_ArithmeticRoutesByModifier ==
    [][(ret'.op = "step" /\ fault = "none" /\ proceses # <<>>
            /\ InBounds(Head(Head(proceses).threads))
            /\ RootFetched.op.code \in {"Add", "Sub", "Mul"}
            /\ RootFetched.a.mode = "Direct" /\ RootFetched.b.mode = "Direct") =>
          LET code == RootFetched.op.code
              modifier == RootFetched.op.mode
              at == Head(Head(proceses).threads) + RootFetched.b.value
          IN  /\ fault' = "none"
              /\ memory'[at].a.value =
                    (CASE modifier \in {"A", "F", "I"} ->
                            ModularValue(code, RootDestination.a.value, RootSource.a.value)
                       [] modifier \in {"BA", "X"} ->
                            ModularValue(code, RootDestination.a.value, RootSource.b.value)
                       [] OTHER -> RootDestination.a.value)
              /\ memory'[at].b.value =
                    (CASE modifier \in {"B", "F", "I"} ->
                            ModularValue(code, RootDestination.b.value, RootSource.b.value)
                       [] modifier \in {"AB", "X"} ->
                            ModularValue(code, RootDestination.b.value, RootSource.a.value)
                       [] OTHER -> RootDestination.b.value)]_vars

\* the fields the modifier selects are equal in source and destination
SelectedEqual(modifier, a, b) ==
    CASE modifier = "A"  -> a.a.value = b.a.value
      [] modifier = "B"  -> a.b.value = b.b.value
      [] modifier = "AB" -> a.a.value = b.b.value
      [] modifier = "BA" -> a.b.value = b.a.value
      [] modifier = "F"  -> a.a.value = b.a.value /\ a.b.value = b.b.value
      [] modifier = "X"  -> a.a.value = b.b.value /\ a.b.value = b.a.value
      [] modifier = "I"  -> a = b

\* C36: Sne queues PC + 2 for the thread exactly when the fields the
\* modifier selects differ between source and destination and PC + 1 when
\* they are equal, the opposite of Seq and Cmp on the same operands.
C36_SneSkipsWhenDifferent ==
    [][(ret'.op = "step" /\ fault = "none" /\ proceses # <<>>
            /\ InBounds(Head(Head(proceses).threads))
            /\ RootFetched.op.code \in {"Sne", "Seq", "Cmp"}
            /\ RootFetched.a.mode = "Direct" /\ RootFetched.b.mode = "Direct") =>
          LET pc == Head(Head(proceses).threads)
              equal == SelectedEqual(RootFetched.op.mode, RootSource, RootDestination)
              skips == IF RootFetched.op.code = "Sne" THEN ~equal ELSE equal
          IN  /\ fault' = "none"
              /\ Len(proceses') = 1
              /\ proceses'[1].threads =
                    Append(Tail(Head(proceses).threads), IF skips THEN pc + 2 ELSE pc + 1)]_vars

\* C37: Djn decrements the fields of the destination the modifier selects
\* by 1 modulo M in place (A and BA: the A field, B and AB: the B field, F,
\* X and I: both) and then queues the address of the A operand when a
\* decremented field is non-zero and PC + 1 otherwise; the decrement does
\* not alter the jump target.
C37_DjnTestsTheDecrementedField ==
    [][(ret'.op = "step" /\ fault = "none" /\ proceses # <<>>
            /\ InBounds(Head(Head(proceses).threads))
            /\ RootFetched.op.code = "Djn"
            /\ RootFetched.a.mode = "Direct" /\ RootFetched.b.mode = "Direct") =>
          LET pc == Head(Head(proceses).threads)
              modifier == RootFetched.op.mode
              at == pc + RootFetched.b.value
              new_a == IF modifier \in {"B", "AB"} THEN RootDestination.a.value
                       ELSE (RootDestination.a.value - 1) % Size
              new_b == IF modifier \in {"A", "BA"} THEN RootDestination.b.value
                       ELSE (RootDestination.b.value - 1) % Size
              jumps == CASE modifier \in {"A", "BA"} -> new_a # 0
                         [] modifier \in {"B", "AB"} -> new_b # 0
                         [] OTHER -> new_a # 0 \/ new_b # 0
          IN  /\ fault' = "none"
              /\ memory'[at].a.value = new_a
              /\ memory'[at].b.value = new_b
              /\ Len(proceses') = 1
              /\ proceses'[1].threads =
                    Append(Tail(Head(proceses).threads),
                           IF jumps THEN pc + RootFetched.a.value ELSE pc + 1)]_vars

\* C39: the threads of a process run in FIFO order: a step runs the front
\* thread of the process; the threads behind it move up, in their order,
\* ahead of whatever the step queues; a Dat queues nothing; a Nop or a Mov
\* queues one program counter, the one behind the thread's, at the back.
\* So a step that neither adds nor removes a thread rotates the queue, and
\* k such steps run each of k threads once.
C39_ThreadsRunInFifoOrder ==
    [][(StepReturned /\ proceses # <<>>) =>
          LET front == Head(proceses)
              pc == Head(front.threads)
              rest == Tail(front.threads)
              n == Len(proceses)
              after == IF Len(proceses') = n /\ proceses'[n].pid = front.pid
                       THEN proceses'[n].threads ELSE <<>>
          IN  /\ IsPrefix(rest, after)
              /\ RootFetched.op.code = "Dat" => after = rest
              /\ RootFetched.op.code \in {"Nop", "Mov"} =>
                    /\ Len(after) = Len(rest) + 1
                    /\ (after[Len(after)] - (pc + 1)) % Size = 0]_vars

\* a process of two threads has run its front thread, a Nop, which is now
\* queued behind the other thread
C39_Witness ==
    /\ ret.op = "step"
    /\ fault = "none"
    /\ nloads = 2
    /\ memory[0].op.code = "Nop"
    /\ \E i \in 1..Len(proceses) : proceses[i].threads = <<1, 1>>

\* C40: a step changes the thread queue of the process it runs and nothing
\* else of the scheduler: every other process is queued afterwards with the
\* same pid, the same threads in the same order and the same private
\* storage; the process that ran keeps its pid and its private storage if
\* it is queued again; and no process is added.
C40_StepTouchesOnlyItsProcess ==
    [][(StepReturned /\ proceses # <<>>) =>
          LET front == Head(proceses)
              n == Len(proceses)
              others == { proceses[i] : i \in 2..n }
          IN  /\ Len(proceses') <= n
              /\ \A i \in 2..n : proceses'[i - 1] = proceses[i]
              /\ \A j \in 1..Len(proceses') :
                    \/ j <= n - 1 /\ proceses'[j] \in others
                    \/ /\ j = n
                       /\ proceses'[j].pid = front.pid
                       /\ proceses'[j].pspace = front.pspace]_vars

\* a step has run one of three processes, one of which has two threads
C40_Witness ==
    /\ ret.op = "step"
    /\ fault = "none"
    /\ nloads = 3
    /\ Len(proceses) = 3
    /\ \E i \in 1..2 : Len(proceses[i].threads) = 2

\* ---------------------------------------------------------------------
\* Arithmetic, comparisons and counting of Mars<T> (src/src/simulation/mars.rs)

\* a step of Mars<T> that fetches and executes an instruction whose operands
\* are both Direct
MarsExecutes(codes) ==
    /\ mret'.op = "step"
    /\ mars.fault = "none"
    /\ ~mars.halted
    /\ mars.cycle < mars.max_cycles
    /\ fetch(mars, mars.pc).op.code \in codes
    /\ fetch(mars, mars.pc).a.mode = "Direct"
    /\ fetch(mars, mars.pc).b.mode = "Direct"

\* the cells the operands of the fetched instruction name
MarsSourceAddress == (mars.pc + fetch(mars, mars.pc).a.value) % Size
MarsDestinationAddress == (mars.pc + fetch(mars, mars.pc).b.value) % Size

\* C34: Sub never stores a negative or out-of-range value: the step returns
\* normally, both fields of the destination are in [0, M) afterwards, and
\* under modifier A the A field is the difference modulo M, so that 0 minus
\* 1 gives M - 1.
C34_SubWrapsBelowZero ==
    [][MarsExecutes({"Sub"}) =>
          LET src == fetch(mars, MarsSourceAddress)
              dst == fetch(mars, MarsDestinationAddress)
              after == fetch(mars', MarsDestinationAddress)
          IN  /\ mars'.fault = "none"
              /\ after.a.value \in 0..(Size - 1)
              /\ after.b.value \in 0..(Size - 1)
              /\ fetch(mars, mars.pc).op.mode = "A" =>
                    after.a.value = (dst.a.value - src.a.value) % Size]_vars

\* C35: a Div or Mod whose selected divisor is zero (under F, X and I:
\* either divisor) kills the executing thread and leaves the destination
\* field with the zero divisor unchanged; the step itself returns normally
\* and reports the thread as terminated.  With only non-zero divisors the
\* thread continues at PC + 1.
C35_DivisionByZeroKillsThread ==
    [][MarsExecutes({"Div", "Mod"}) =>
          LET modifier == fetch(mars, mars.pc).op.mode
              src == fetch(mars, MarsSourceAddress)
              dst == fetch(mars, MarsDestinationAddress)
              after == fetch(mars', MarsDestinationAddress)
              \* the divisor of the destination's A field and of its B field
              uses_a == modifier \in {"A", "BA", "F", "I", "X"}
              uses_b == modifier \in {"B", "AB", "F", "I", "X"}
              div_a == IF modifier \in {"A", "F", "I"} THEN src.a.value ELSE src.b.value
              div_b == IF modifier \in {"B", "F", "I"} THEN src.b.value ELSE src.a.value
              zero == (uses_a /\ div_a = 0) \/ (uses_b /\ div_b = 0)
          IN  /\ mars'.fault = "none"
              /\ (uses_a /\ div_a = 0) => after.a.value = dst.a.value
              /\ (uses_b /\ div_b = 0) => after.b.value = dst.b.value
              /\ zero => mret'.val \in {OkResult("Terminated"), OkResult("Halted")}
              /\ ~zero => /\ mret'.val = OkResult("Stepped")
                          /\ mars'.pc = (mars.pc + 1) % Size]_vars

\* ---------------------------------------------------------------------
\* The Mars of src/src/simulation/mod.rs

\* C38: after reset(), whatever loads and steps came before, every cell of
\* memory is the default instruction, no process is queued and the cycle
\* counter is 0.
C38_ResetClearsEverything ==
    gret.op = "reset" =>
        /\ \A j \in 0..(Size - 1) : game.memory[j] = MarsDefaultInstruction
        /\ game.processes = <<>>
        /\ game.cycle = 0

====
